---------------------------- MODULE Spec2Model ----------------------------
(***************************************************************************)
(* Model of the chat-booking infrastructure repository:                    *)
(*   - the shell scripts teardown.sh, validate.sh and deploy.sh, run under *)
(*     bash with `set -e`;                                                 *)
(*   - the CDK app (bin/app.ts) with its Database, Lambda, AppSync, Auth,  *)
(*     Frontend and EmbeddedWidget stacks, their synthesis, deployment and *)
(*     deletion, and the requests served by the AppSync API.               *)
(* Strings that the code inspects character by character are sequences of  *)
(* one-character strings.                                                  *)
(***************************************************************************)
EXTENDS Integers, Sequences, FiniteSets, TLC

VARIABLES
    pc,            \* position of the running script
    output,        \* messages echoed so far
    awsCalls,      \* aws commands issued so far, in order
    status,        \* $? : exit status of the last command
    exitStatus,    \* exit status of the script, Running while it runs
    stdin,         \* teardown.sh: characters available on standard input
    confirmation,  \* teardown.sh: the variable assigned by `read`
    nested,        \* validate.sh: what nested-stacks/*.yaml expands to, in order
    master,        \* validate.sh: whether master-stack.yaml is a valid template
    idx,           \* validate.sh: position of the for loop
    errors,        \* validate.sh: the errors counter
    validated,     \* validate.sh: templates handed to validate_template, in order
    awsInstalled,  \* deploy.sh: whether `command -v aws` finds the AWS CLI
    buckets,       \* deploy.sh: the S3 buckets that exist
    versioned,     \* deploy.sh: the S3 buckets with versioning enabled
    s3objects,     \* deploy.sh: the objects held by the buckets
    fsDirs,        \* deploy.sh: the directories that exist
    fsFiles,       \* deploy.sh: the files that exist
    cwd,           \* deploy.sh: the working directory
    steps,         \* deploy.sh: the functions main has called, in order
    failed,        \* deploy.sh: the commands that returned a non-zero status
    dirIdx,        \* deploy.sh: position of the for loop of package_lambdas
    args,          \* deploy.sh: the positional arguments of the script
    bucketName,    \* deploy.sh: the values of TEMPLATES_BUCKET and CODE_BUCKET
    context,       \* app.ts: the CDK context values given to the app
    processEnv,    \* app.ts: process.env
    appConfig,     \* app.ts: env, account, region, tags and stackPrefix
    stackProps,    \* app.ts: the id and props of each stack instantiated, in order
    cloud,         \* the environments deployed, with the physical names they hold
    runs,          \* the number of runs of the app so far
    cdkPc,         \* CDK app: index of the next statement of the app
    stacks,        \* CDK app: the stacks instantiated, in order
    dependencies,  \* CDK app: <<a, b>> when stack a depends on stack b
    tables,        \* DatabaseStack: the DynamoDB tables declared
    gsis,          \* DatabaseStack: the global secondary indexes, in order
    functions,     \* LambdaStack: the Lambda functions declared
    grants,        \* LambdaStack: the table permissions granted
    alarms,        \* LambdaStack: the CloudWatch alarms, in order
    api,           \* AppSyncApiStack: the GraphQL API (authorization, schema)
    dataSources,   \* AppSyncApiStack: the Lambda data sources
    resolvers,     \* AppSyncApiStack: the resolvers, in order of creation
    resources,     \* the other resources the stacks expose
    outputs,       \* the CfnOutputs added by the app
    deployed,      \* the stacks deployed in the account
    cloudTables,   \* the DynamoDB tables that exist in the account
    tableItems,    \* number of items held by each table of the account
    everWritten,   \* number of items ever written to each table
    lastRequest    \* the last GraphQL request served by the API

shellVars == <<pc, output, awsCalls, status, exitStatus>>
teardownVars == <<stdin, confirmation>>
validateVars == <<nested, master, idx, errors, validated>>
deployVars == <<awsInstalled, buckets, versioned, s3objects, fsDirs, fsFiles,
                cwd, steps, failed, dirIdx>>
synthVars == <<cdkPc, stacks, dependencies, tables, gsis, functions, grants, alarms,
               api, dataSources, resolvers, resources, outputs>>
accountVars == <<deployed, cloudTables, tableItems, everWritten>>
cdkVars == <<synthVars, accountVars, lastRequest>>
envVars == <<context, processEnv, appConfig, stackProps, cloud, runs>>
configVars == <<args, bucketName, envVars>>
scriptVars == <<shellVars, teardownVars, validateVars, deployVars, configVars>>

\* what each script leaves alone
notTeardown == <<validateVars, deployVars, configVars, cdkVars>>
notValidate == <<teardownVars, deployVars, configVars, cdkVars>>
notDeploy == <<teardownVars, validateVars, configVars, cdkVars>>
vars == <<pc, output, awsCalls, status, exitStatus, stdin, confirmation,
          nested, master, idx, errors, validated,
          awsInstalled, buckets, versioned, s3objects, fsDirs, fsFiles,
          cwd, steps, failed, dirIdx, args, bucketName,
          context, processEnv, appConfig, stackProps, cloud, runs,
          cdkPc, stacks, dependencies, tables, gsis, functions, grants, alarms,
          api, dataSources, resolvers, resources, outputs,
          deployed, cloudTables, tableItems, everWritten, lastRequest>>

---------------------------------------------------------------------------
(* Bounds *)
MaxEdits == 1
MaxNested == 3

---------------------------------------------------------------------------
(* bash *)

Running == -1

\* exit statuses of a failing aws / pip / zip command
FailCodes == {1, 255}
Outcomes == {0} \cup FailCodes

\* `set -e`: a simple command that fails ends the script with its status
SetE(rc, nextPc) ==
    /\ status' = rc
    /\ IF rc # 0
         THEN pc' = "done" /\ exitStatus' = rc
         ELSE pc' = nextPc /\ UNCHANGED exitStatus

\* `exit n`
Exit(n) ==
    /\ pc' = "done"
    /\ exitStatus' = n

Mentions(seq, x) == \E i \in 1..Len(seq) : seq[i] = x

---------------------------------------------------------------------------
(* teardown.sh *)

ConfirmWord == <<"D", "E", "L", "E", "T", "E">>

Alphabet == {"E", "x", " ", "\t", "\\", "\n"}

Edits1(s) ==
    LET Insert(i, c) == SubSeq(s, 1, i) \o <<c>> \o SubSeq(s, i + 1, Len(s))
        Delete(i) == SubSeq(s, 1, i - 1) \o SubSeq(s, i + 1, Len(s))
        Subst(i, c) == [s EXCEPT ![i] = c]
    IN  {s}
        \cup {Insert(i, c) : i \in 0..Len(s), c \in Alphabet}
        \cup {Delete(i) : i \in 1..Len(s)}
        \cup {Subst(i, c) : i \in 1..Len(s), c \in Alphabet}

RECURSIVE Edits(_, _)
Edits(S, n) == IF n = 0 THEN S ELSE Edits(UNION {Edits1(s) : s \in S}, n - 1)

\* what the user may type before the line is ended (or standard input closed)
BaseLines == {<<>>, ConfirmWord, <<"d", "e", "l", "e", "t", "e">>, <<"y", "e", "s">>}
TypedLines == Edits(BaseLines, MaxEdits)
Streams == TypedLines \cup {l \o <<"\n">> : l \in TypedLines}

IsIfsBlank(c) == c \in {" ", "\t", "\n"}

\* `read` without -r, character by character: a backslash quotes the next
\* character, backslash-newline continues the line, an unquoted newline ends
\* it; reaching end of input makes read fail.  chars keeps, for each character
\* read, whether it was quoted.
RECURSIVE ReadChars(_, _, _, _)
ReadChars(s, i, passNext, acc) ==
    IF i > Len(s)
      THEN [chars |-> acc, rc |-> 1, consumed |-> Len(s)]
      ELSE LET c == s[i] IN
           IF passNext
             THEN IF c = "\n"
                    THEN ReadChars(s, i + 1, FALSE, acc)
                    ELSE ReadChars(s, i + 1, FALSE, Append(acc, [c |-> c, quoted |-> TRUE]))
             ELSE IF c = "\\"
                    THEN ReadChars(s, i + 1, TRUE, acc)
                    ELSE IF c = "\n"
                           THEN [chars |-> acc, rc |-> 0, consumed |-> i]
                           ELSE ReadChars(s, i + 1, FALSE, Append(acc, [c |-> c, quoted |-> FALSE]))

Strippable(x) == IsIfsBlank(x.c) /\ ~x.quoted

RECURSIVE StripLeading(_)
StripLeading(cs) ==
    IF cs # <<>> /\ Strippable(Head(cs)) THEN StripLeading(Tail(cs)) ELSE cs

RECURSIVE StripTrailing(_)
StripTrailing(cs) ==
    IF cs # <<>> /\ Strippable(cs[Len(cs)])
      THEN StripTrailing(SubSeq(cs, 1, Len(cs) - 1))
      ELSE cs

\* `read name`: the single variable gets the line with unquoted leading and
\* trailing IFS white space removed
ReadBuiltin(s) ==
    LET r == ReadChars(s, 1, FALSE, <<>>)
        w == StripTrailing(StripLeading(r.chars))
    IN  [value |-> [k \in 1..Len(w) |-> w[k].c], rc |-> r.rc, consumed |-> r.consumed]

\* the characters read consumed, without the newline that ended the line
LineRead(s) ==
    LET r == ReadBuiltin(s)
    IN  IF r.rc = 0 THEN SubSeq(s, 1, r.consumed - 1) ELSE s

TeardownSh ==
    [ Aborted |-> "Aborted. No changes made.",
      Deleting |-> "Deleting CloudFormation stack...",
      Waiting |-> "Waiting for stack deletion to complete...",
      Deleted |-> "Stack deleted successfully!",
      DeleteFailed |-> "ERROR: Stack deletion failed",
      DeleteStack |-> "aws cloudformation delete-stack",
      WaitDelete |-> "aws cloudformation wait stack-delete-complete" ]

ShellStart(first) ==
    /\ pc = first
    /\ output = <<>>
    /\ awsCalls = <<>>
    /\ status = 0
    /\ exitStatus = Running

NoApi ==
    [stack |-> "", name |-> "", defaultAuthorization |-> "",
     additionalAuthorizationModes |-> <<>>, authorizer |-> ""]
NoRequest == [auth |-> "", typeName |-> "", fieldName |-> "", authorized |-> FALSE, function |-> ""]

IdleShell ==
    /\ pc = "none"
    /\ output = <<>>
    /\ awsCalls = <<>>
    /\ status = 0
    /\ exitStatus = Running

IdleCdk ==
    /\ cdkPc = 1
    /\ stacks = <<>>
    /\ dependencies = {}
    /\ tables = {}
    /\ gsis = <<>>
    /\ functions = {}
    /\ grants = {}
    /\ alarms = <<>>
    /\ api = NoApi
    /\ dataSources = {}
    /\ resolvers = <<>>
    /\ resources = {}
    /\ outputs = {}
    /\ deployed = {}
    /\ cloudTables = {}
    /\ tableItems = <<>>
    /\ everWritten = <<>>
    /\ lastRequest = NoRequest

IdleTeardown == stdin = <<>> /\ confirmation = <<>>
IdleEnv ==
    /\ context = <<>>
    /\ processEnv = <<>>
    /\ appConfig = <<>>
    /\ stackProps = <<>>
    /\ cloud = {}
    /\ runs = 0
IdleConfig == args = <<>> /\ bucketName = <<>>
IdleValidate ==
    /\ nested = <<>>
    /\ master = "valid"
    /\ idx = 1
    /\ errors = 0
    /\ validated = <<>>

IdleDeploy ==
    /\ awsInstalled = TRUE
    /\ buckets = {}
    /\ versioned = {}
    /\ s3objects = {}
    /\ fsDirs = {}
    /\ fsFiles = {}
    /\ cwd = <<>>
    /\ steps = <<>>
    /\ failed = {}
    /\ dirIdx = 1

InitTeardown ==
    /\ ShellStart("td_read")
    /\ stdin \in Streams
    /\ confirmation = <<>>
    /\ IdleValidate
    /\ IdleDeploy
    /\ IdleCdk
    /\ IdleConfig
    /\ IdleEnv

\* line 35: read -p "..." confirmation
TdRead ==
    /\ pc = "td_read"
    /\ LET r == ReadBuiltin(stdin)
       IN  /\ confirmation' = r.value
           /\ SetE(r.rc, "td_gate")
    /\ UNCHANGED <<output, awsCalls, stdin, notTeardown>>

\* the gate with the comparison dropped: every line confirms
TdGate_AlwaysConfirm ==
    /\ pc = "td_gate"
    /\ output' = Append(output, TeardownSh.Deleting)
    /\ pc' = "td_delete"
    /\ UNCHANGED <<exitStatus, status, awsCalls, stdin, confirmation, notTeardown>>

\* lines 37-45: if [ "$confirmation" != "DELETE" ]; then abort; fi
TdGate ==
    /\ pc = "td_gate"
    /\ IF confirmation # ConfirmWord
         THEN /\ output' = Append(output, TeardownSh.Aborted)
              /\ Exit(0)
         ELSE /\ output' = Append(output, TeardownSh.Deleting)
              /\ pc' = "td_delete"
              /\ UNCHANGED exitStatus
    /\ UNCHANGED <<status, awsCalls, stdin, confirmation, notTeardown>>

\* lines 47-51: aws cloudformation delete-stack
TdDeleteStack ==
    /\ pc = "td_delete"
    /\ awsCalls' = Append(awsCalls, TeardownSh.DeleteStack)
    /\ \E rc \in Outcomes :
         /\ SetE(rc, "td_wait")
         /\ output' = IF rc = 0 THEN Append(output, TeardownSh.Waiting) ELSE output
    /\ UNCHANGED <<teardownVars, notTeardown>>

\* lines 52-54: aws cloudformation wait stack-delete-complete
TdWait ==
    /\ pc = "td_wait"
    /\ awsCalls' = Append(awsCalls, TeardownSh.WaitDelete)
    /\ \E rc \in Outcomes : SetE(rc, "td_result")
    /\ UNCHANGED <<output, stdin, confirmation, notTeardown>>

\* lines 56-67: if [ $? -eq 0 ]; then success else error, exit 1
TdResult ==
    /\ pc = "td_result"
    /\ IF status = 0
         THEN /\ output' = Append(output, TeardownSh.Deleted)
              /\ Exit(0)
         ELSE /\ output' = Append(output, TeardownSh.DeleteFailed)
              /\ Exit(1)
    /\ UNCHANGED <<status, awsCalls, stdin, confirmation, notTeardown>>

NextTeardown == TdRead \/ TdGate \/ TdDeleteStack \/ TdWait \/ TdResult

SpecTeardown == InitTeardown /\ [][NextTeardown]_vars

(* C1, as stated: delete-stack is issued only if the line read is exactly    *)
(* DELETE, and every other input ends in the abort message, exit status 0    *)
(* and no aws command.                                                       *)
C1_ExactLineOnly ==
    /\ Mentions(awsCalls, TeardownSh.DeleteStack) => LineRead(stdin) = ConfirmWord
    /\ (pc = "done" /\ LineRead(stdin) # ConfirmWord) =>
           /\ Mentions(output, TeardownSh.Aborted)
           /\ exitStatus = 0
           /\ awsCalls = <<>>

(* C1, amended: an aws command is issued only if read succeeded (the line   *)
(* was ended by a newline) and the value read assigns, the line with        *)
(* unquoted leading and trailing blanks stripped and backslash quoting      *)
(* removed, is DELETE; every other line that read accepts ends in the abort  *)
(* message, exit status 0 and no aws command; when read fails at end of     *)
(* input the script exits with status 1, no abort message, no aws command.  *)
C1_ConfirmationGate ==
    LET r == ReadBuiltin(stdin) IN
    /\ awsCalls # <<>> => (r.rc = 0 /\ r.value = ConfirmWord /\ awsCalls[1] = TeardownSh.DeleteStack)
    /\ (pc = "done" /\ r.rc = 0 /\ r.value # ConfirmWord) =>
           /\ output = <<TeardownSh.Aborted>>
           /\ exitStatus = 0
           /\ awsCalls = <<>>
    /\ (pc = "done" /\ r.rc # 0) =>
           /\ output = <<>>
           /\ exitStatus = 1
           /\ awsCalls = <<>>
    /\ (pc = "done" /\ r.rc = 0 /\ r.value = ConfirmWord) => Mentions(awsCalls, TeardownSh.DeleteStack)

\* a line that is not exactly DELETE has led to delete-stack
C1_Witness ==
    /\ pc = "done"
    /\ Mentions(awsCalls, TeardownSh.DeleteStack)
    /\ LineRead(stdin) # ConfirmWord

---------------------------------------------------------------------------
(* validate.sh *)

ValidateSh ==
    [ AllValid |-> "All templates are valid!",
      Ok |-> "ok",
      ErrorValidating |-> "Error validating",
      ValidateTemplate |-> "aws cloudformation validate-template" ]

FoundMsg(k) == "Found " \o ToString(k) \o " error(s)"

\* what a path of the glob can be: a template that validates, one that does
\* not, or something that is not a regular file (also the unexpanded pattern)
Entries == {"valid", "invalid", "nofile"}

RECURSIVE SeqsUpTo(_, _)
SeqsUpTo(S, n) ==
    IF n = 0 THEN {<<>>}
    ELSE LET shorter == SeqsUpTo(S, n - 1)
         IN  shorter \cup {Append(q, x) : q \in shorter, x \in S}

InitValidate ==
    /\ ShellStart("va_loop")
    /\ nested \in SeqsUpTo(Entries, MaxNested)
    /\ master \in {"valid", "invalid"}
    /\ idx = 1
    /\ errors = 0
    /\ validated = <<>>
    /\ IdleTeardown
    /\ IdleDeploy
    /\ IdleCdk
    /\ IdleConfig
    /\ IdleEnv

\* (( expr )) returns 1 when the expression evaluates to 0, else 0;
\* the value of errors++ is the value before the increment
ArithStatus(value) == IF value = 0 THEN 1 ELSE 0

\* validate_template that reports every template as valid
ValidateTemplate_AlwaysOk(entry) == 0

\* lines 20-39, validate_template: 0 if the template validates, else 1
ValidateTemplate(entry) == IF entry = "valid" THEN 0 ELSE 1

\* what validate_template echoes and which aws commands it issues
ValidateEffects(file, rc) ==
    /\ validated' = Append(validated, file)
    /\ output' = output \o (IF rc = 0 THEN <<ValidateSh.Ok>> ELSE <<ValidateSh.ErrorValidating>>)
    /\ awsCalls' = awsCalls \o (IF rc = 0 THEN <<ValidateSh.ValidateTemplate>>
                                 ELSE <<ValidateSh.ValidateTemplate, ValidateSh.ValidateTemplate>>)

\* `validate_template f || ((errors++))`: the status of the list is that of
\* the last command run, and `set -e` applies to it
OrIncrement(rc, nextPc) ==
    IF rc = 0
      THEN /\ SetE(0, nextPc)
           /\ UNCHANGED errors
      ELSE /\ errors' = errors + 1
           /\ SetE(ArithStatus(errors), nextPc)

\* lines 43-47: one iteration of the for loop over nested-stacks/*.yaml
VaLoop ==
    /\ pc = "va_loop"
    /\ idx <= Len(nested)
    /\ idx' = idx + 1
    /\ IF nested[idx] = "nofile"
         THEN UNCHANGED <<shellVars, errors, validated>>
         ELSE LET rc == ValidateTemplate(nested[idx])
              IN  /\ ValidateEffects(idx, rc)
                  /\ OrIncrement(rc, "va_loop")
    /\ UNCHANGED <<nested, master, notValidate>>

\* line 50: validate_template "master-stack.yaml" || ((errors++))
VaMaster ==
    /\ pc = "va_loop"
    /\ idx > Len(nested)
    /\ LET rc == ValidateTemplate(master)
       IN  /\ ValidateEffects(0, rc)
           /\ OrIncrement(rc, "va_report")
    /\ UNCHANGED <<nested, master, idx, notValidate>>

\* lines 53-59: report and exit
VaReport ==
    /\ pc = "va_report"
    /\ IF errors = 0
         THEN /\ output' = Append(output, ValidateSh.AllValid)
              /\ Exit(0)
         ELSE /\ output' = Append(output, FoundMsg(errors))
              /\ Exit(1)
    /\ UNCHANGED <<status, awsCalls, validateVars, notValidate>>

NextValidate == VaLoop \/ VaMaster \/ VaReport

SpecValidate == InitValidate /\ [][NextValidate]_vars

AllTemplatesPass ==
    /\ \A i \in 1..Len(nested) : nested[i] # "invalid"
    /\ master = "valid"

(* C3: validate.sh exits with status 0 if and only if every nested template *)
(* file and master-stack.yaml validate; with an invalid template the exit    *)
(* status is non-zero and 'All templates are valid' is never printed.        *)
C3_ExitZeroIffAllValid ==
    /\ pc = "done" => (exitStatus = 0 <=> AllTemplatesPass)
    /\ ~AllTemplatesPass => ~Mentions(output, ValidateSh.AllValid)
    /\ (pc = "done" /\ ~AllTemplatesPass) => exitStatus # 0

\* a run over several templates with an invalid one has ended
C3_Witness ==
    /\ pc = "done"
    /\ Len(nested) >= 2
    /\ ~AllTemplatesPass
    /\ exitStatus # 0
    /\ Len(validated) >= 2

---------------------------------------------------------------------------
(* deploy.sh *)

(* Directory layout (src/README.md, "Despliegue manual"): the repository    *)
(* chat-booking-infrastructure and the backend chat-booking-backend are     *)
(* siblings, and the script runs in <repository>/cloudformation.  A path is *)
(* the sequence of its components, <<>> being the root.                     *)
Workspace == <<"ws">>
RepoDir == Workspace \o <<"chat-booking-infrastructure">>
CloudformationDir == RepoDir \o <<"cloudformation">>

BackendDir == <<"..", "..", "chat-booking-backend">>
FunctionDirs == <<"auth_resolver", "catalog", "availability", "booking", "chat_agent">>
SharedDir == "shared"
FunctionZipTarget(dir) ==
    <<"..", "..", "..", "cloudformation", "dist", "functions", dir \o ".zip">>
LayerZipTarget == <<"..", "..", "cloudformation", "dist", "layers", "shared-layer.zip">>
DistFunctions == <<"dist", "functions">>
DistLayers == <<"dist", "layers">>
NestedStacksDir == <<"nested-stacks">>
NestedTemplates == {"database-stack.yaml", "auth-stack.yaml", "lambda-stack.yaml",
                    "appsync-api-stack.yaml", "monitoring-stack.yaml"}

TemplatesBucket == "TEMPLATES_BUCKET"
CodeBucket == "CODE_BUCKET"

Parent(p) == IF p = <<>> THEN <<>> ELSE SubSeq(p, 1, Len(p) - 1)
Last(p) == p[Len(p)]

RECURSIVE Resolve(_, _)
Resolve(base, rel) ==
    IF rel = <<>> THEN base
    ELSE Resolve(IF Head(rel) = ".." THEN Parent(base) ELSE Append(base, Head(rel)),
                 Tail(rel))

Prefixes(p) == {SubSeq(p, 1, k) : k \in 0..Len(p)}
MkdirP(dirs, p) == dirs \cup Prefixes(p)
FilesIn(dir) == {f \in fsFiles : Parent(f) = dir}

\* aws s3 sync <dir> s3://<bucket>/<prefix>/ --delete
Sync(bucket, prefix, dir) ==
    {o \in s3objects : ~(o.bucket = bucket /\ Head(o.key) = prefix)}
    \cup {[bucket |-> bucket, key |-> <<prefix, Last(f)>>] : f \in FilesIn(dir)}

DeployCmd ==
    [ Ls |-> "aws s3 ls",
      Mb |-> "aws s3 mb",
      Versioning |-> "aws s3api put-bucket-versioning",
      MkdirDist |-> "mkdir -p dist/functions dist/layers",
      PipFunction |-> "pip install (function)",
      ZipFunction |-> "zip (function)",
      MkdirPython |-> "mkdir -p python",
      PipLayer |-> "pip install (layer) || true",
      CpLayer |-> "cp -r (layer) || true",
      ZipLayer |-> "zip (layer)",
      SyncFunctions |-> "aws s3 sync dist/functions/",
      SyncLayers |-> "aws s3 sync dist/layers/",
      SyncTemplates |-> "aws s3 sync nested-stacks/",
      CpMaster |-> "aws s3 cp master-stack.yaml",
      ValidateUrl |-> "aws cloudformation validate-template --template-url",
      Deploy |-> "aws cloudformation deploy",
      DescribeStacks |-> "aws cloudformation describe-stacks" ]

\* the commands whose failure `|| true` hides (lines 95-96)
Guarded == {DeployCmd.PipLayer, DeployCmd.CpLayer}

DeployMsg ==
    [ NoCli |-> "ERROR: AWS CLI is not installed",
      CliFound |-> "AWS CLI found",
      BucketExists |-> "bucket exists",
      NoBackend |-> "ERROR: Backend directory not found",
      Packaged |-> "Lambda packages created",
      CodeUploaded |-> "Code uploaded",
      TemplatesUploaded |-> "Templates uploaded",
      TemplateValid |-> "Template is valid",
      Deployed |-> "Stack deployed successfully!",
      DeployFailed |-> "ERROR: Stack deployment failed",
      Complete |-> "Deployment Complete!" ]

MainOrder == <<"check_aws_cli", "check_buckets", "package_lambdas", "upload_code",
               "upload_templates", "validate_template", "deploy_stack", "get_outputs">>

BackendPath == Resolve(CloudformationDir, BackendDir)
RepoDirs == MkdirP(MkdirP({}, CloudformationDir), Resolve(CloudformationDir, NestedStacksDir))
RepoFiles ==
    {Append(CloudformationDir, "master-stack.yaml")}
    \cup {Append(Resolve(CloudformationDir, NestedStacksDir), t) : t \in NestedTemplates}

RECURSIVE MkdirAll(_, _)
MkdirAll(dirs, paths) ==
    IF paths = {} THEN dirs
    ELSE LET q == CHOOSE x \in paths : TRUE
         IN  MkdirAll(MkdirP(dirs, q), paths \ {q})

FunctionDirSet == {FunctionDirs[i] : i \in 1..Len(FunctionDirs)}

\* the directories a machine may have besides the repository: the backend
\* with some of its sub-directories, and directories that happen to sit
\* where the zip targets point
StrayFunctions == <<"cloudformation", "dist", "functions">>
StrayLayers == Workspace \o <<"cloudformation", "dist", "layers">>

InitDeploy ==
    /\ ShellStart("check_aws_cli")
    /\ awsInstalled \in BOOLEAN
    /\ buckets \in SUBSET {TemplatesBucket, CodeBucket}
    /\ versioned = {}
    /\ s3objects = {}
    /\ \E backend \in BOOLEAN, subdirs \in SUBSET (FunctionDirSet \cup {SharedDir}),
          stray \in SUBSET {StrayFunctions, StrayLayers} :
         /\ ~backend => subdirs = {}
         /\ fsDirs = MkdirAll(RepoDirs,
                        (IF backend THEN {BackendPath} ELSE {})
                        \cup {Append(BackendPath, d) : d \in subdirs}
                        \cup stray)
    /\ fsFiles = RepoFiles
    /\ cwd = CloudformationDir
    /\ steps = <<>>
    /\ failed = {}
    /\ dirIdx = 1
    /\ IdleTeardown
    /\ IdleValidate
    /\ IdleCdk
    /\ IdleConfig
    /\ IdleEnv

\* lines 33-39
CheckAwsCli ==
    /\ pc = "check_aws_cli"
    /\ steps' = Append(steps, "check_aws_cli")
    /\ IF ~awsInstalled
         THEN /\ output' = Append(output, DeployMsg.NoCli)
              /\ Exit(1)
         ELSE /\ output' = Append(output, DeployMsg.CliFound)
              /\ pc' = "check_buckets"
              /\ UNCHANGED exitStatus
    /\ UNCHANGED <<status, awsCalls, awsInstalled, buckets, versioned, s3objects,
                   fsDirs, fsFiles, cwd, failed, dirIdx, notDeploy>>

\* aws s3 mb ...; [put-bucket-versioning], whether or not the bucket exists
EnsureBucket_AlwaysCreate(b, versioning, nextPc) ==
    \E rcMb \in Outcomes, rcVer \in Outcomes :
      /\ UNCHANGED output
      /\ IF rcMb # 0
           THEN /\ awsCalls' = awsCalls \o <<DeployCmd.Ls, DeployCmd.Mb>>
                /\ failed' = failed \cup {DeployCmd.Mb}
                /\ SetE(rcMb, nextPc)
                /\ UNCHANGED <<buckets, versioned>>
           ELSE /\ buckets' = buckets \cup {b}
                /\ IF versioning
                     THEN /\ awsCalls' = awsCalls \o <<DeployCmd.Ls, DeployCmd.Mb, DeployCmd.Versioning>>
                          /\ failed' = IF rcVer # 0 THEN failed \cup {DeployCmd.Versioning} ELSE failed
                          /\ versioned' = IF rcVer = 0 THEN versioned \cup {b} ELSE versioned
                          /\ SetE(rcVer, nextPc)
                     ELSE /\ awsCalls' = awsCalls \o <<DeployCmd.Ls, DeployCmd.Mb>>
                          /\ UNCHANGED <<failed, versioned>>
                          /\ SetE(0, nextPc)

\* if ! aws s3 ls "s3://b"; then aws s3 mb ...; [put-bucket-versioning]; fi
EnsureBucket(b, versioning, nextPc) ==
    IF b \in buckets
      THEN /\ awsCalls' = Append(awsCalls, DeployCmd.Ls)
           /\ output' = Append(output, DeployMsg.BucketExists)
           /\ pc' = nextPc
           /\ UNCHANGED <<buckets, versioned, failed, status, exitStatus>>
      ELSE \E rcMb \in Outcomes, rcVer \in Outcomes :
             /\ UNCHANGED output
             /\ IF rcMb # 0
                  THEN /\ awsCalls' = awsCalls \o <<DeployCmd.Ls, DeployCmd.Mb>>
                       /\ failed' = failed \cup {DeployCmd.Mb}
                       /\ SetE(rcMb, nextPc)
                       /\ UNCHANGED <<buckets, versioned>>
                  ELSE /\ buckets' = buckets \cup {b}
                       /\ IF versioning
                            THEN /\ awsCalls' = awsCalls \o <<DeployCmd.Ls, DeployCmd.Mb, DeployCmd.Versioning>>
                                 /\ failed' = IF rcVer # 0 THEN failed \cup {DeployCmd.Versioning} ELSE failed
                                 /\ versioned' = IF rcVer = 0 THEN versioned \cup {b} ELSE versioned
                                 /\ SetE(rcVer, nextPc)
                            ELSE /\ awsCalls' = awsCalls \o <<DeployCmd.Ls, DeployCmd.Mb>>
                                 /\ UNCHANGED <<failed, versioned>>
                                 /\ SetE(0, nextPc)

\* lines 42-54
CheckTemplatesBucket ==
    /\ pc = "check_buckets"
    /\ steps' = Append(steps, "check_buckets")
    /\ EnsureBucket(TemplatesBucket, TRUE, "check_code_bucket")
    /\ UNCHANGED <<awsInstalled, s3objects, fsDirs, fsFiles, cwd, dirIdx, notDeploy>>

\* lines 56-62
CheckCodeBucket ==
    /\ pc = "check_code_bucket"
    /\ EnsureBucket(CodeBucket, FALSE, "package_lambdas")
    /\ UNCHANGED <<awsInstalled, s3objects, fsDirs, fsFiles, cwd, steps, dirIdx, notDeploy>>

CheckBuckets == CheckTemplatesBucket \/ CheckCodeBucket

\* package_lambdas without the backend directory test: straight to mkdir -p
PkgStart_NoBackendTest ==
    /\ pc = "package_lambdas"
    /\ steps' = Append(steps, "package_lambdas")
    /\ dirIdx' = 1
    /\ UNCHANGED output
    /\ \E rc \in Outcomes :
         /\ SetE(rc, "pkg_loop")
         /\ failed' = IF rc # 0 THEN failed \cup {DeployCmd.MkdirDist} ELSE failed
         /\ fsDirs' = IF rc = 0
                        THEN MkdirP(MkdirP(fsDirs, Resolve(cwd, DistFunctions)),
                                    Resolve(cwd, DistLayers))
                        ELSE fsDirs
    /\ UNCHANGED <<awsCalls, awsInstalled, buckets, versioned, s3objects, fsFiles, cwd, notDeploy>>

\* lines 65-77: the backend directory test and mkdir -p
PkgStart ==
    /\ pc = "package_lambdas"
    /\ steps' = Append(steps, "package_lambdas")
    /\ dirIdx' = 1
    /\ IF Resolve(cwd, BackendDir) \notin fsDirs
         THEN /\ output' = Append(output, DeployMsg.NoBackend)
              /\ Exit(1)
              /\ UNCHANGED <<status, fsDirs, failed>>
         ELSE /\ UNCHANGED output
              /\ \E rc \in Outcomes :
                   /\ SetE(rc, "pkg_loop")
                   /\ failed' = IF rc # 0 THEN failed \cup {DeployCmd.MkdirDist} ELSE failed
                   /\ fsDirs' = IF rc = 0
                                  THEN MkdirP(MkdirP(fsDirs, Resolve(cwd, DistFunctions)),
                                              Resolve(cwd, DistLayers))
                                  ELSE fsDirs
    /\ UNCHANGED <<awsCalls, awsInstalled, buckets, versioned, s3objects, fsFiles, cwd, notDeploy>>

\* lines 80-88: one iteration of `for dir in ...`
PkgFunction ==
    /\ pc = "pkg_loop"
    /\ dirIdx <= Len(FunctionDirs)
    /\ dirIdx' = dirIdx + 1
    /\ LET dir == FunctionDirs[dirIdx]
           here == Resolve(cwd, Append(BackendDir, dir))
           target == Resolve(here, FunctionZipTarget(dir))
       IN  IF here \notin fsDirs
             THEN UNCHANGED <<shellVars, fsFiles, cwd, failed>>
             ELSE \E rcPip \in Outcomes,
                     rcZip \in (IF Parent(target) \in fsDirs THEN Outcomes ELSE FailCodes) :
                    /\ UNCHANGED <<output, awsCalls>>
                    /\ IF rcPip # 0
                         THEN /\ failed' = failed \cup {DeployCmd.PipFunction}
                              /\ SetE(rcPip, "pkg_loop")
                              /\ cwd' = here
                              /\ UNCHANGED fsFiles
                         ELSE /\ failed' = IF rcZip # 0 THEN failed \cup {DeployCmd.ZipFunction} ELSE failed
                              /\ SetE(rcZip, "pkg_loop")
                              /\ cwd' = IF rcZip # 0 THEN here ELSE cwd
                              /\ fsFiles' = IF rcZip = 0 THEN fsFiles \cup {target} ELSE fsFiles
    /\ UNCHANGED <<awsInstalled, buckets, versioned, s3objects, fsDirs, steps, notDeploy>>

\* lines 91-102: the shared layer
PkgLayer ==
    /\ pc = "pkg_loop"
    /\ dirIdx > Len(FunctionDirs)
    /\ LET here == Resolve(cwd, Append(BackendDir, SharedDir))
           target == Resolve(here, LayerZipTarget)
       IN  IF here \notin fsDirs
             THEN /\ output' = Append(output, DeployMsg.Packaged)
                  /\ pc' = "upload_code"
                  /\ UNCHANGED <<status, exitStatus, fsFiles, cwd, failed>>
             ELSE \E rcMkdir \in Outcomes, rcPip \in Outcomes, rcCp \in Outcomes,
                     rcZip \in (IF Parent(target) \in fsDirs THEN Outcomes ELSE FailCodes) :
                    IF rcMkdir # 0
                      THEN /\ failed' = failed \cup {DeployCmd.MkdirPython}
                           /\ SetE(rcMkdir, "upload_code")
                           /\ cwd' = here
                           /\ UNCHANGED <<output, fsFiles>>
                      ELSE LET ignored == (IF rcPip # 0 THEN {DeployCmd.PipLayer} ELSE {})
                                          \cup (IF rcCp # 0 THEN {DeployCmd.CpLayer} ELSE {})
                           IN  /\ failed' = failed \cup ignored
                                            \cup (IF rcZip # 0 THEN {DeployCmd.ZipLayer} ELSE {})
                               /\ SetE(rcZip, "upload_code")
                               /\ cwd' = IF rcZip # 0 THEN here ELSE cwd
                               /\ fsFiles' = IF rcZip = 0 THEN fsFiles \cup {target} ELSE fsFiles
                               /\ output' = IF rcZip = 0 THEN Append(output, DeployMsg.Packaged) ELSE output
    /\ UNCHANGED <<awsCalls, awsInstalled, buckets, versioned, s3objects, fsDirs, steps,
                   dirIdx, notDeploy>>

PackageLambdas == PkgStart \/ PkgFunction \/ PkgLayer

\* two commands in a row under `set -e`: the effect of each applies when it
\* succeeds, the second runs only when the first succeeded
CanSync(bucket, dir) == bucket \in buckets /\ Resolve(cwd, dir) \in fsDirs

\* lines 106-114
UploadCode ==
    /\ pc = "upload_code"
    /\ steps' = Append(steps, "upload_code")
    /\ \E rc1 \in (IF CanSync(CodeBucket, DistFunctions) THEN Outcomes ELSE FailCodes),
          rc2 \in (IF CanSync(CodeBucket, DistLayers) THEN Outcomes ELSE FailCodes) :
         IF rc1 # 0
           THEN /\ awsCalls' = Append(awsCalls, DeployCmd.SyncFunctions)
                /\ failed' = failed \cup {DeployCmd.SyncFunctions}
                /\ SetE(rc1, "upload_templates")
                /\ UNCHANGED <<s3objects, output>>
           ELSE /\ awsCalls' = awsCalls \o <<DeployCmd.SyncFunctions, DeployCmd.SyncLayers>>
                /\ failed' = IF rc2 # 0 THEN failed \cup {DeployCmd.SyncLayers} ELSE failed
                /\ SetE(rc2, "upload_templates")
                /\ output' = IF rc2 = 0 THEN Append(output, DeployMsg.CodeUploaded) ELSE output
                /\ s3objects' =
                     LET afterFunctions == Sync(CodeBucket, "functions", Resolve(cwd, DistFunctions))
                     IN  IF rc2 # 0 THEN afterFunctions
                         ELSE {o \in afterFunctions : ~(o.bucket = CodeBucket /\ Head(o.key) = "layers")}
                              \cup {[bucket |-> CodeBucket, key |-> <<"layers", Last(f)>>] :
                                       f \in FilesIn(Resolve(cwd, DistLayers))}
    /\ UNCHANGED <<awsInstalled, buckets, versioned, fsDirs, fsFiles, cwd, dirIdx, notDeploy>>

\* lines 117-125
UploadTemplates ==
    /\ pc = "upload_templates"
    /\ steps' = Append(steps, "upload_templates")
    /\ \E rc1 \in (IF CanSync(TemplatesBucket, NestedStacksDir) THEN Outcomes ELSE FailCodes),
          rc2 \in Outcomes :
         IF rc1 # 0
           THEN /\ awsCalls' = Append(awsCalls, DeployCmd.SyncTemplates)
                /\ failed' = failed \cup {DeployCmd.SyncTemplates}
                /\ SetE(rc1, "validate_template")
                /\ UNCHANGED <<s3objects, output>>
           ELSE /\ awsCalls' = awsCalls \o <<DeployCmd.SyncTemplates, DeployCmd.CpMaster>>
                /\ failed' = IF rc2 # 0 THEN failed \cup {DeployCmd.CpMaster} ELSE failed
                /\ SetE(rc2, "validate_template")
                /\ output' = IF rc2 = 0 THEN Append(output, DeployMsg.TemplatesUploaded) ELSE output
                /\ s3objects' =
                     Sync(TemplatesBucket, "nested-stacks", Resolve(cwd, NestedStacksDir))
                     \cup (IF rc2 = 0
                             THEN {[bucket |-> TemplatesBucket, key |-> <<"master-stack.yaml">>]}
                             ELSE {})
    /\ UNCHANGED <<awsInstalled, buckets, versioned, fsDirs, fsFiles, cwd, dirIdx, notDeploy>>

\* lines 128-137
DeployValidateTemplate ==
    /\ pc = "validate_template"
    /\ steps' = Append(steps, "validate_template")
    /\ awsCalls' = Append(awsCalls, DeployCmd.ValidateUrl)
    /\ \E rc \in Outcomes :
         /\ SetE(rc, "deploy_stack")
         /\ failed' = IF rc # 0 THEN failed \cup {DeployCmd.ValidateUrl} ELSE failed
         /\ output' = IF rc = 0 THEN Append(output, DeployMsg.TemplateValid) ELSE output
    /\ UNCHANGED <<awsInstalled, buckets, versioned, s3objects, fsDirs, fsFiles, cwd,
                   dirIdx, notDeploy>>

\* lines 140-156: aws cloudformation deploy
DeployCommand ==
    /\ pc = "deploy_stack"
    /\ steps' = Append(steps, "deploy_stack")
    /\ awsCalls' = Append(awsCalls, DeployCmd.Deploy)
    /\ \E rc \in Outcomes :
         /\ SetE(rc, "deploy_result")
         /\ failed' = IF rc # 0 THEN failed \cup {DeployCmd.Deploy} ELSE failed
    /\ UNCHANGED <<output, awsInstalled, buckets, versioned, s3objects, fsDirs, fsFiles, cwd,
                   dirIdx, notDeploy>>

\* lines 158-164: if [ $? -eq 0 ]
DeployResult ==
    /\ pc = "deploy_result"
    /\ IF status = 0
         THEN /\ output' = Append(output, DeployMsg.Deployed)
              /\ pc' = "get_outputs"
              /\ UNCHANGED exitStatus
         ELSE /\ output' = Append(output, DeployMsg.DeployFailed)
              /\ Exit(1)
    /\ UNCHANGED <<status, awsCalls, deployVars, notDeploy>>

DeployStack == DeployCommand \/ DeployResult

\* lines 168-197; the script ends with the status of the last echo
GetOutputs ==
    /\ pc = "get_outputs"
    /\ steps' = Append(steps, "get_outputs")
    /\ output' = Append(output, DeployMsg.Complete)
    /\ \E rc1 \in Outcomes, rc2 \in Outcomes :
         IF rc1 # 0
           THEN /\ awsCalls' = Append(awsCalls, DeployCmd.DescribeStacks)
                /\ failed' = failed \cup {DeployCmd.DescribeStacks}
                /\ SetE(rc1, "done")
           ELSE /\ awsCalls' = awsCalls \o <<DeployCmd.DescribeStacks, DeployCmd.DescribeStacks>>
                /\ failed' = IF rc2 # 0 THEN failed \cup {DeployCmd.DescribeStacks} ELSE failed
                /\ status' = rc2
                /\ Exit(rc2)
    /\ UNCHANGED <<awsInstalled, buckets, versioned, s3objects, fsDirs, fsFiles, cwd,
                   dirIdx, notDeploy>>

\* lines 200-212: main
NextDeploy ==
    \/ CheckAwsCli
    \/ CheckBuckets
    \/ PackageLambdas
    \/ UploadCode
    \/ UploadTemplates
    \/ DeployValidateTemplate
    \/ DeployStack
    \/ GetOutputs

SpecDeploy == InitDeploy /\ [][NextDeploy]_vars

IsPrefix(a, b) == Len(a) <= Len(b) /\ a = SubSeq(b, 1, Len(a))

\* the commands of the six steps that precede deploy_stack
EarlierCmds ==
    {DeployCmd.Mb, DeployCmd.Versioning, DeployCmd.MkdirDist, DeployCmd.PipFunction, DeployCmd.ZipFunction, DeployCmd.MkdirPython,
     DeployCmd.PipLayer, DeployCmd.CpLayer, DeployCmd.ZipLayer, DeployCmd.SyncFunctions, DeployCmd.SyncLayers,
     DeployCmd.SyncTemplates, DeployCmd.CpMaster, DeployCmd.ValidateUrl}

BackendMissing == BackendPath \notin fsDirs

---------------------------------------------------------------------------
(* The CDK app: cdk/bin/app.ts and the stacks of cdk/lib.  The app is a     *)
(* sequence of statements, each constructing one thing in one stack; the    *)
(* declarations below are the arguments of those statements.                *)

Attr(name, type) == [name |-> name, type |-> type]
NoKey == [name |-> "", type |-> ""]

\* database-stack.ts: new dynamodb.Table(...)
TableDecls == <<
    [id |-> "tenantsTable", tableName |-> "ChatBooking-Tenants",
     partitionKey |-> Attr("tenantId", "STRING"), sortKey |-> NoKey,
     removalPolicy |-> "RETAIN"],
    [id |-> "apiKeysTable", tableName |-> "ChatBooking-ApiKeys",
     partitionKey |-> Attr("apiKeyHash", "STRING"), sortKey |-> NoKey,
     removalPolicy |-> "RETAIN"],
    [id |-> "servicesTable", tableName |-> "ChatBooking-Services",
     partitionKey |-> Attr("tenantId", "STRING"), sortKey |-> Attr("serviceId", "STRING"),
     removalPolicy |-> "RETAIN"],
    [id |-> "providersTable", tableName |-> "ChatBooking-Providers",
     partitionKey |-> Attr("tenantId", "STRING"), sortKey |-> Attr("providerId", "STRING"),
     removalPolicy |-> "RETAIN"],
    [id |-> "availabilityTable", tableName |-> "ChatBooking-ProviderAvailability",
     partitionKey |-> Attr("tenantId_providerId", "STRING"), sortKey |-> Attr("dayOfWeek", "STRING"),
     removalPolicy |-> "RETAIN"],
    [id |-> "bookingsTable", tableName |-> "ChatBooking-Bookings",
     partitionKey |-> Attr("tenantId", "STRING"), sortKey |-> Attr("bookingId", "STRING"),
     removalPolicy |-> "RETAIN"],
    [id |-> "conversationsTable", tableName |-> "ChatBooking-Conversations",
     partitionKey |-> Attr("tenantId", "STRING"), sortKey |-> Attr("conversationId", "STRING"),
     removalPolicy |-> "RETAIN"] >>

\* database-stack.ts: <table>.addGlobalSecondaryIndex(...)
GsiDecls == <<
    [table |-> "tenantsTable", indexName |-> "slug-index",
     partitionKey |-> Attr("slug", "STRING"), sortKey |-> NoKey],
    [table |-> "apiKeysTable", indexName |-> "tenantId-index",
     partitionKey |-> Attr("tenantId", "STRING"), sortKey |-> NoKey],
    [table |-> "servicesTable", indexName |-> "category-index",
     partitionKey |-> Attr("tenantId", "STRING"), sortKey |-> Attr("category", "STRING")],
    [table |-> "providersTable", indexName |-> "serviceId-index",
     partitionKey |-> Attr("tenantId", "STRING"), sortKey |-> Attr("serviceIds", "STRING")],
    [table |-> "bookingsTable", indexName |-> "providerId-start-index",
     partitionKey |-> Attr("tenantId_providerId", "STRING"), sortKey |-> Attr("start", "STRING")],
    [table |-> "bookingsTable", indexName |-> "clientEmail-index",
     partitionKey |-> Attr("tenantId", "STRING"), sortKey |-> Attr("clientEmail", "STRING")],
    [table |-> "bookingsTable", indexName |-> "conversationId-index",
     partitionKey |-> Attr("tenantId", "STRING"), sortKey |-> Attr("conversationId", "STRING")],
    [table |-> "conversationsTable", indexName |-> "state-index",
     partitionKey |-> Attr("tenantId", "STRING"), sortKey |-> Attr("state", "STRING")] >>

St(op, stack, d) == [op |-> op, stack |-> stack, d |-> d]
Ref(stack, id) == <<stack, id>>
Output(name, refs) == [name |-> name, refs |-> refs]

\* the body of the DatabaseStack constructor, statement by statement
DatabaseStackBody ==
    LET T(i) == St("table", "Database", TableDecls[i])
        G(i) == St("gsi", "Database", GsiDecls[i])
        O(name, t) == St("output", "Database", Output(name, {Ref("Database", t)}))
    IN  << T(1), G(1), T(2), G(2), T(3), G(3), T(4), G(4), T(5),
           T(6), G(5), G(6), G(7), T(7), G(8),
           O("TenantsTableName", "tenantsTable"),
           O("ApiKeysTableName", "apiKeysTable"),
           O("ServicesTableName", "servicesTable"),
           O("ProvidersTableName", "providersTable"),
           O("AvailabilityTableName", "availabilityTable"),
           O("BookingsTableName", "bookingsTable"),
           O("ConversationsTableName", "conversationsTable") >>

\* app.ts lines 53-59: the tables handed to the LambdaStack
LambdaStackProps ==
    [tenantsTable |-> Ref("Database", "tenantsTable"),
     apiKeysTable |-> Ref("Database", "apiKeysTable"),
     servicesTable |-> Ref("Database", "servicesTable"),
     providersTable |-> Ref("Database", "providersTable"),
     availabilityTable |-> Ref("Database", "availabilityTable"),
     bookingsTable |-> Ref("Database", "bookingsTable"),
     conversationsTable |-> Ref("Database", "conversationsTable")]

TableName(prop) == [kind |-> "tableName", of |-> prop]
Literal(v) == [kind |-> "literal", of |-> v]

\* lambda-stack: const commonProps = {...}
CommonProps ==
    [runtime |-> "PYTHON_3_9",
     timeout |-> 30,
     memorySize |-> 512,
     environment |->
        [TENANTS_TABLE |-> TableName("tenantsTable"),
         API_KEYS_TABLE |-> TableName("apiKeysTable"),
         SERVICES_TABLE |-> TableName("servicesTable"),
         PROVIDERS_TABLE |-> TableName("providersTable"),
         AVAILABILITY_TABLE |-> TableName("availabilityTable"),
         BOOKINGS_TABLE |-> TableName("bookingsTable"),
         CONVERSATIONS_TABLE |-> TableName("conversationsTable"),
         LOG_LEVEL |-> Literal("INFO")]]

\* a spread in which the earlier keys win
Spread_FirstWins(a, b) == [k \in DOMAIN a \cup DOMAIN b |-> IF k \in DOMAIN a THEN a[k] ELSE b[k]]

\* { ...a, ...b }: the keys of b replace those of a
Spread(a, b) == [k \in DOMAIN a \cup DOMAIN b |-> IF k \in DOMAIN b THEN b[k] ELSE a[k]]

\* lambda-stack: new lambda.Function(this, ..., { ...commonProps, ... })
FunctionDecls == <<
    Spread(CommonProps,
           [id |-> "authResolverFunction", functionName |-> "ChatBooking-AuthResolver",
            code |-> "auth_resolver", timeout |-> 10, memorySize |-> 256]),
    Spread(CommonProps,
           [id |-> "catalogFunction", functionName |-> "ChatBooking-Catalog",
            code |-> "catalog"]),
    Spread(CommonProps,
           [id |-> "availabilityFunction", functionName |-> "ChatBooking-Availability",
            code |-> "availability",
            environment |-> Spread(CommonProps.environment,
                                   [SLOT_INTERVAL_MINUTES |-> Literal("15")])]),
    Spread(CommonProps,
           [id |-> "bookingFunction", functionName |-> "ChatBooking-Booking",
            code |-> "booking", timeout |-> 60]),
    Spread(CommonProps,
           [id |-> "chatAgentFunction", functionName |-> "ChatBooking-ChatAgent",
            code |-> "chat_agent", timeout |-> 60, memorySize |-> 1024]) >>

GrantRead(prop, fn) == [table |-> prop, fn |-> fn, access |-> "ReadData"]
GrantReadWrite(prop, fn) == [table |-> prop, fn |-> fn, access |-> "ReadWriteData"]

\* lambda-stack: createAlarms, the functions it loops over
AlarmFunctions == <<
    [name |-> "AuthResolver", fn |-> "authResolverFunction"],
    [name |-> "Booking", fn |-> "bookingFunction"],
    [name |-> "ChatAgent", fn |-> "chatAgentFunction"] >>

AlarmKinds == <<"Errors", "Throttles", "Duration">>

\* the body of the LambdaStack constructor, statement by statement
LambdaStackBody ==
    LET F(i) == St("function", "Lambda", FunctionDecls[i])
        R(prop, fn) == St("grant", "Lambda", GrantRead(prop, fn))
        W(prop, fn) == St("grant", "Lambda", GrantReadWrite(prop, fn))
        A(i, k) == St("alarm", "Lambda", [of |-> AlarmFunctions[i], kind |-> AlarmKinds[k]])
        O(name, fn) == St("output", "Lambda", Output(name, {Ref("Lambda", fn)}))
    IN  << St("resource", "Lambda", "sharedLayer"),
           F(1),
           R("tenantsTable", "authResolverFunction"),
           W("apiKeysTable", "authResolverFunction"),
           F(2),
           W("servicesTable", "catalogFunction"),
           W("providersTable", "catalogFunction"),
           F(3),
           W("availabilityTable", "availabilityFunction"),
           R("bookingsTable", "availabilityFunction"),
           R("servicesTable", "availabilityFunction"),
           R("providersTable", "availabilityFunction"),
           F(4),
           W("bookingsTable", "bookingFunction"),
           R("servicesTable", "bookingFunction"),
           R("providersTable", "bookingFunction"),
           R("tenantsTable", "bookingFunction"),
           R("conversationsTable", "bookingFunction"),
           F(5),
           W("conversationsTable", "chatAgentFunction"),
           R("servicesTable", "chatAgentFunction"),
           R("providersTable", "chatAgentFunction"),
           R("availabilityTable", "chatAgentFunction"),
           W("bookingsTable", "chatAgentFunction"),
           A(1, 1), A(1, 2), A(1, 3),
           A(2, 1), A(2, 2), A(2, 3),
           A(3, 1), A(3, 2), A(3, 3),
           O("AuthResolverFunctionArn", "authResolverFunction"),
           O("CatalogFunctionArn", "catalogFunction"),
           O("AvailabilityFunctionArn", "availabilityFunction"),
           O("BookingFunctionArn", "bookingFunction"),
           O("ChatAgentFunctionArn", "chatAgentFunction") >>

\* app.ts lines 68-72: the functions handed to the AppSyncApiStack
AppSyncApiStackProps ==
    [authResolverFunction |-> Ref("Lambda", "authResolverFunction"),
     catalogFunction |-> Ref("Lambda", "catalogFunction"),
     availabilityFunction |-> Ref("Lambda", "availabilityFunction"),
     bookingFunction |-> Ref("Lambda", "bookingFunction"),
     chatAgentFunction |-> Ref("Lambda", "chatAgentFunction")]

\* appsync-api-stack.ts lines 37-63
ApiDecl ==
    [name |-> "ChatBookingGraphQLApi",
     defaultAuthorization |-> "API_KEY",
     additionalAuthorizationModes |-> <<"LAMBDA">>,
     authorizer |-> "authResolverFunction"]

Field(typeName, fieldName, section) ==
    [typeName |-> typeName, fieldName |-> fieldName, section |-> section, directives |-> {}]

\* buildSchema: the fields of type Query and type Mutation, each under the
\* comment that heads its group; no field and no type carries an
\* authorization directive
Schema == <<
    Field("Query", "searchServices", "Catalog"),
    Field("Query", "getService", "Catalog"),
    Field("Query", "listProviders", "Catalog"),
    Field("Query", "listProvidersByService", "Catalog"),
    Field("Query", "getAvailableSlots", "Availability"),
    Field("Query", "getBooking", "Bookings"),
    Field("Query", "listBookingsByProvider", "Bookings"),
    Field("Query", "listBookingsByClient", "Bookings"),
    Field("Query", "getBookingByConversation", "Bookings"),
    Field("Query", "getConversation", "Chat"),
    Field("Mutation", "createService", "Catalog (Admin)"),
    Field("Mutation", "updateService", "Catalog (Admin)"),
    Field("Mutation", "deleteService", "Catalog (Admin)"),
    Field("Mutation", "createProvider", "Catalog (Admin)"),
    Field("Mutation", "updateProvider", "Catalog (Admin)"),
    Field("Mutation", "deleteProvider", "Catalog (Admin)"),
    Field("Mutation", "setProviderAvailability", "Availability (Admin)"),
    Field("Mutation", "createBooking", "Bookings"),
    Field("Mutation", "confirmBooking", "Bookings"),
    Field("Mutation", "cancelBooking", "Bookings"),
    Field("Mutation", "startConversation", "Chat"),
    Field("Mutation", "sendMessage", "Chat"),
    Field("Mutation", "confirmBookingFromConversation", "Chat") >>

\* appsync-api-stack.ts lines 66-84: this.api.addLambdaDataSource(name, props.<function>)
DataSourceDecls == <<
    [id |-> "catalogDataSource", name |-> "CatalogDataSource", function |-> "catalogFunction"],
    [id |-> "availabilityDataSource", name |-> "AvailabilityDataSource", function |-> "availabilityFunction"],
    [id |-> "bookingDataSource", name |-> "BookingDataSource", function |-> "bookingFunction"],
    [id |-> "chatAgentDataSource", name |-> "ChatAgentDataSource", function |-> "chatAgentFunction"] >>

\* lines 87-92 and 404-409: the arguments of the call of createResolvers and
\* its parameters, bound by position
CreateResolversArgs ==
    <<"catalogDataSource", "availabilityDataSource", "bookingDataSource", "chatAgentDataSource">>
CreateResolversParams ==
    <<"catalogDataSource", "availabilityDataSource", "bookingDataSource", "chatAgentDataSource">>
Argument(param) ==
    CreateResolversArgs[CHOOSE i \in 1..Len(CreateResolversParams) : CreateResolversParams[i] = param]

Resolver(ds, id, typeName, fieldName) ==
    [dataSource |-> ds, id |-> id, typeName |-> typeName, fieldName |-> fieldName]

\* createResolvers with two slips: deleteProvider resolved twice, under two
\* ids, and getConversation left without a resolver
ResolverDecls_Slip == <<
    Resolver("catalogDataSource", "SearchServicesResolver", "Query", "searchServices"),
    Resolver("catalogDataSource", "GetServiceResolver", "Query", "getService"),
    Resolver("catalogDataSource", "ListProvidersResolver", "Query", "listProviders"),
    Resolver("catalogDataSource", "ListProvidersByServiceResolver", "Query", "listProvidersByService"),
    Resolver("catalogDataSource", "CreateServiceResolver", "Mutation", "createService"),
    Resolver("catalogDataSource", "UpdateServiceResolver", "Mutation", "updateService"),
    Resolver("catalogDataSource", "DeleteServiceResolver", "Mutation", "deleteService"),
    Resolver("catalogDataSource", "CreateProviderResolver", "Mutation", "createProvider"),
    Resolver("catalogDataSource", "UpdateProviderResolver", "Mutation", "updateProvider"),
    Resolver("catalogDataSource", "DeleteProviderResolver", "Mutation", "deleteProvider"),
    Resolver("availabilityDataSource", "GetAvailableSlotsResolver", "Query", "getAvailableSlots"),
    Resolver("availabilityDataSource", "SetProviderAvailabilityResolver", "Mutation", "setProviderAvailability"),
    Resolver("bookingDataSource", "GetBookingResolver", "Query", "getBooking"),
    Resolver("bookingDataSource", "ListBookingsByProviderResolver", "Query", "listBookingsByProvider"),
    Resolver("bookingDataSource", "ListBookingsByClientResolver", "Query", "listBookingsByClient"),
    Resolver("bookingDataSource", "GetBookingByConversationResolver", "Query", "getBookingByConversation"),
    Resolver("bookingDataSource", "CreateBookingResolver", "Mutation", "createBooking"),
    Resolver("bookingDataSource", "ConfirmBookingResolver", "Mutation", "confirmBooking"),
    Resolver("bookingDataSource", "CancelBookingResolver", "Mutation", "cancelBooking"),
    Resolver("chatAgentDataSource", "StartConversationResolver", "Mutation", "startConversation"),
    Resolver("chatAgentDataSource", "SendMessageResolver", "Mutation", "sendMessage"),
    Resolver("chatAgentDataSource", "ConfirmBookingFromConversationResolver", "Mutation", "confirmBookingFromConversation"),
    Resolver("chatAgentDataSource", "GetConversationResolver", "Mutation", "deleteProvider") >>

\* createResolvers, lines 410-573: <dataSource>.createResolver(id, {typeName, fieldName, ...})
ResolverDecls == <<
    Resolver("catalogDataSource", "SearchServicesResolver", "Query", "searchServices"),
    Resolver("catalogDataSource", "GetServiceResolver", "Query", "getService"),
    Resolver("catalogDataSource", "ListProvidersResolver", "Query", "listProviders"),
    Resolver("catalogDataSource", "ListProvidersByServiceResolver", "Query", "listProvidersByService"),
    Resolver("catalogDataSource", "CreateServiceResolver", "Mutation", "createService"),
    Resolver("catalogDataSource", "UpdateServiceResolver", "Mutation", "updateService"),
    Resolver("catalogDataSource", "DeleteServiceResolver", "Mutation", "deleteService"),
    Resolver("catalogDataSource", "CreateProviderResolver", "Mutation", "createProvider"),
    Resolver("catalogDataSource", "UpdateProviderResolver", "Mutation", "updateProvider"),
    Resolver("catalogDataSource", "DeleteProviderResolver", "Mutation", "deleteProvider"),
    Resolver("availabilityDataSource", "GetAvailableSlotsResolver", "Query", "getAvailableSlots"),
    Resolver("availabilityDataSource", "SetProviderAvailabilityResolver", "Mutation", "setProviderAvailability"),
    Resolver("bookingDataSource", "GetBookingResolver", "Query", "getBooking"),
    Resolver("bookingDataSource", "ListBookingsByProviderResolver", "Query", "listBookingsByProvider"),
    Resolver("bookingDataSource", "ListBookingsByClientResolver", "Query", "listBookingsByClient"),
    Resolver("bookingDataSource", "GetBookingByConversationResolver", "Query", "getBookingByConversation"),
    Resolver("bookingDataSource", "CreateBookingResolver", "Mutation", "createBooking"),
    Resolver("bookingDataSource", "ConfirmBookingResolver", "Mutation", "confirmBooking"),
    Resolver("bookingDataSource", "CancelBookingResolver", "Mutation", "cancelBooking"),
    Resolver("chatAgentDataSource", "StartConversationResolver", "Mutation", "startConversation"),
    Resolver("chatAgentDataSource", "SendMessageResolver", "Mutation", "sendMessage"),
    Resolver("chatAgentDataSource", "ConfirmBookingFromConversationResolver", "Mutation", "confirmBookingFromConversation"),
    Resolver("chatAgentDataSource", "GetConversationResolver", "Query", "getConversation") >>

\* the body of the AppSyncApiStack constructor, statement by statement
AppSyncApiStackBody ==
    LET O(name) == St("output", "AppSyncApi", Output(name, {Ref("AppSyncApi", "api")}))
    IN  << St("api", "AppSyncApi", ApiDecl) >>
        \o [i \in 1..Len(DataSourceDecls) |-> St("dataSource", "AppSyncApi", DataSourceDecls[i])]
        \o [i \in 1..Len(ResolverDecls) |-> St("resolver", "AppSyncApi", ResolverDecls[i])]
        \o << O("GraphQLApiUrl"), O("GraphQLApiId"), O("GraphQLApiKey") >>

\* auth-stack.ts
AuthStackBody ==
    LET O(name, r) == St("output", "Auth", Output(name, {Ref("Auth", r)}))
    IN  << St("resource", "Auth", "userPool"),
           St("resource", "Auth", "userPoolClient"),
           St("resource", "Auth", "adminGroup"),
           St("resource", "Auth", "staffGroup"),
           St("resource", "Auth", "domain"),
           O("UserPoolId", "userPool"),
           O("UserPoolArn", "userPool"),
           O("UserPoolClientId", "userPoolClient"),
           O("UserPoolDomain", "domain"),
           O("UserPoolLoginUrl", "domain") >>

\* frontend-stack.ts
FrontendStackBody ==
    << St("resource", "Frontend", "websiteBucket"),
       St("resource", "Frontend", "distribution"),
       St("resource", "Frontend", "DeployOnboarding"),
       St("output", "Frontend", Output("CloudFrontURL", {Ref("Frontend", "distribution")})) >>

\* embedded-widget-stack (appsync-api-stack.ts lines 590-647 and 662-729)
EmbeddedWidgetStackBody ==
    << St("resource", "EmbeddedWidget", "widgetBucket"),
       St("resource", "EmbeddedWidget", "distribution"),
       St("resource", "EmbeddedWidget", "DeployWidget"),
       St("output", "EmbeddedWidget", Output("WidgetUrl", {Ref("EmbeddedWidget", "distribution")})),
       St("output", "EmbeddedWidget", Output("DistributionId", {Ref("EmbeddedWidget", "distribution")})) >>

\* app.ts lines 109-119: the output added to the AppSync stack
DeploymentSummary ==
    Output("DeploymentSummary",
           {Ref("AppSyncApi", "api"), Ref("Auth", "userPool"),
            Ref("Frontend", "distribution"), Ref("EmbeddedWidget", "distribution")})

\* app.ts, top to bottom
App ==
    << St("stack", "Database", "DatabaseStack") >> \o DatabaseStackBody
    \o << St("stack", "Lambda", "LambdaStack") >> \o LambdaStackBody
    \o << St("addDependency", "Lambda", "Database") >>
    \o << St("stack", "AppSyncApi", "AppSyncApiStack") >> \o AppSyncApiStackBody
    \o << St("addDependency", "AppSyncApi", "Lambda") >>
    \o << St("stack", "Auth", "AuthStack") >> \o AuthStackBody
    \o << St("stack", "Frontend", "FrontendStack") >> \o FrontendStackBody
    \o << St("stack", "EmbeddedWidget", "EmbeddedWidgetStack") >> \o EmbeddedWidgetStackBody
    \o << St("output", "AppSyncApi", DeploymentSummary) >>
    \o << St("synth", "", "") >>

---------------------------------------------------------------------------
(* Running the app: one action per kind of statement.                       *)

MaxItems == 2

Synthesized == cdkPc > Len(App)
Stmt == App[cdkPc]
At(op) == cdkPc \in 1..Len(App) /\ Stmt.op = op
Advance == cdkPc' = cdkPc + 1

\* a construct of one stack that uses a resource of another makes its stack
\* depend on the other
Uses(stack, ref) == IF ref[1] # stack THEN {<<stack, ref[1]>>} ELSE {}

\* new XStack(app, id, props)
NewStack ==
    /\ At("stack")
    /\ stacks' = Append(stacks, Stmt.stack)
    /\ Advance
    /\ UNCHANGED <<dependencies, tables, gsis, functions, grants, alarms, api,
                   dataSources, resolvers, resources, outputs>>

\* new dynamodb.Table(this, id, {...})
NewTable ==
    /\ At("table")
    /\ tables' = tables \cup {Spread(Stmt.d, [stack |-> Stmt.stack])}
    /\ resources' = resources \cup {Ref(Stmt.stack, Stmt.d.id)}
    /\ Advance
    /\ UNCHANGED <<stacks, dependencies, gsis, functions, grants, alarms, api,
                   dataSources, resolvers, outputs>>

\* <table>.addGlobalSecondaryIndex({...}) that leaves the table as it was
AddGlobalSecondaryIndex_Dropped ==
    /\ At("gsi")
    /\ Ref(Stmt.stack, Stmt.d.table) \in resources
    /\ gsis' = gsis
    /\ Advance
    /\ UNCHANGED <<stacks, dependencies, tables, functions, grants, alarms, api,
                   dataSources, resolvers, resources, outputs>>

\* <table>.addGlobalSecondaryIndex({...})
AddGlobalSecondaryIndex ==
    /\ At("gsi")
    /\ Ref(Stmt.stack, Stmt.d.table) \in resources
    /\ gsis' = Append(gsis, Stmt.d)
    /\ Advance
    /\ UNCHANGED <<stacks, dependencies, tables, functions, grants, alarms, api,
                   dataSources, resolvers, resources, outputs>>

\* the tables whose names a function's environment holds
EnvironmentRefs(env) ==
    {LambdaStackProps[env[k].of] : k \in {n \in DOMAIN env : env[n].kind = "tableName"}}

\* new lambda.Function(this, id, {...})
NewFunction ==
    /\ At("function")
    /\ functions' = functions \cup {Spread(Stmt.d, [stack |-> Stmt.stack])}
    /\ resources' = resources \cup {Ref(Stmt.stack, Stmt.d.id)}
    /\ dependencies' = dependencies \cup
            UNION {Uses(Stmt.stack, r) : r \in EnvironmentRefs(Stmt.d.environment)}
    /\ Advance
    /\ UNCHANGED <<stacks, tables, gsis, grants, alarms, api, dataSources,
                   resolvers, outputs>>

\* a grant that gives write access whichever method is called
Grant_ReadWriteAlways ==
    /\ At("grant")
    /\ Ref(Stmt.stack, Stmt.d.fn) \in resources
    /\ grants' = grants \cup {[table |-> LambdaStackProps[Stmt.d.table],
                               fn |-> Stmt.d.fn, access |-> "ReadWriteData"]}
    /\ dependencies' = dependencies \cup Uses(Stmt.stack, LambdaStackProps[Stmt.d.table])
    /\ Advance
    /\ UNCHANGED <<stacks, tables, gsis, functions, alarms, api, dataSources,
                   resolvers, resources, outputs>>

\* props.<table>.grantReadData(fn) / grantReadWriteData(fn)
Grant ==
    /\ At("grant")
    /\ Ref(Stmt.stack, Stmt.d.fn) \in resources
    /\ grants' = grants \cup {[table |-> LambdaStackProps[Stmt.d.table],
                               fn |-> Stmt.d.fn, access |-> Stmt.d.access]}
    /\ dependencies' = dependencies \cup Uses(Stmt.stack, LambdaStackProps[Stmt.d.table])
    /\ Advance
    /\ UNCHANGED <<stacks, tables, gsis, functions, alarms, api, dataSources,
                   resolvers, resources, outputs>>

TheFunction(id) == CHOOSE f \in functions : f.id = id

\* a duration threshold taken from the common timeout, not the function's own
Threshold_CommonTimeout(kind, fn) ==
    CASE kind = "Errors" -> 10
      [] kind = "Throttles" -> 5
      [] kind = "Duration" -> CommonProps.timeout * 800

\* createAlarms: the threshold of each alarm
Threshold(kind, fn) ==
    CASE kind = "Errors" -> 10
      [] kind = "Throttles" -> 5
      [] kind = "Duration" -> fn.timeout * 800

\* createAlarms: new cloudwatch.Alarm(this, `${name}${kind}Alarm`, {...})
NewAlarm ==
    /\ At("alarm")
    /\ alarms' = Append(alarms,
            [alarmName |-> <<"ChatBooking", Stmt.d.of.name, Stmt.d.kind>>,
             fn |-> Stmt.d.of.fn,
             metric |-> Stmt.d.kind,
             threshold |-> Threshold(Stmt.d.kind, TheFunction(Stmt.d.of.fn))])
    /\ Advance
    /\ UNCHANGED <<stacks, dependencies, tables, gsis, functions, grants, api,
                   dataSources, resolvers, resources, outputs>>

\* new appsync.GraphqlApi(this, 'ChatBookingApi', {...})
NewGraphqlApi ==
    /\ At("api")
    /\ api' = [stack |-> Stmt.stack,
               name |-> Stmt.d.name,
               defaultAuthorization |-> Stmt.d.defaultAuthorization,
               additionalAuthorizationModes |-> Stmt.d.additionalAuthorizationModes,
               authorizer |-> AppSyncApiStackProps[Stmt.d.authorizer][2]]
    /\ resources' = resources \cup {Ref(Stmt.stack, "api")}
    /\ dependencies' = dependencies \cup Uses(Stmt.stack, AppSyncApiStackProps[Stmt.d.authorizer])
    /\ Advance
    /\ UNCHANGED <<stacks, tables, gsis, functions, grants, alarms, dataSources,
                   resolvers, outputs>>

\* this.api.addLambdaDataSource(name, props.<function>) with the data sources
\* of the catalog and of the chat agent handed each other's function
AddLambdaDataSource_Crossed ==
    /\ At("dataSource")
    /\ LET fn == CASE Stmt.d.function = "catalogFunction" -> "chatAgentFunction"
                   [] Stmt.d.function = "chatAgentFunction" -> "catalogFunction"
                   [] OTHER -> Stmt.d.function
       IN  /\ dataSources' = dataSources \cup
                  {[id |-> Stmt.d.id, name |-> Stmt.d.name,
                    function |-> AppSyncApiStackProps[fn][2]]}
           /\ dependencies' = dependencies \cup Uses(Stmt.stack, AppSyncApiStackProps[fn])
    /\ Advance
    /\ UNCHANGED <<stacks, tables, gsis, functions, grants, alarms, api,
                   resolvers, resources, outputs>>

\* this.api.addLambdaDataSource(name, props.<function>)
AddLambdaDataSource ==
    /\ At("dataSource")
    /\ dataSources' = dataSources \cup
           {[id |-> Stmt.d.id, name |-> Stmt.d.name,
             function |-> AppSyncApiStackProps[Stmt.d.function][2]]}
    /\ dependencies' = dependencies \cup Uses(Stmt.stack, AppSyncApiStackProps[Stmt.d.function])
    /\ Advance
    /\ UNCHANGED <<stacks, tables, gsis, functions, grants, alarms, api,
                   resolvers, resources, outputs>>

\* <dataSource>.createResolver(id, {typeName, fieldName, ...})
CreateResolver ==
    /\ At("resolver")
    /\ resolvers' = Append(resolvers,
            [id |-> Stmt.d.id, typeName |-> Stmt.d.typeName,
             fieldName |-> Stmt.d.fieldName,
             dataSource |-> Argument(Stmt.d.dataSource)])
    /\ Advance
    /\ UNCHANGED <<stacks, dependencies, tables, gsis, functions, grants, alarms,
                   api, dataSources, resources, outputs>>

\* any other construct: user pool, bucket, distribution, layer, ...
NewResource ==
    /\ At("resource")
    /\ resources' = resources \cup {Ref(Stmt.stack, Stmt.d)}
    /\ Advance
    /\ UNCHANGED <<stacks, dependencies, tables, gsis, functions, grants, alarms,
                   api, dataSources, resolvers, outputs>>

\* new cdk.CfnOutput(stack, name, {value})
NewCfnOutput ==
    /\ At("output")
    /\ Stmt.d.refs \subseteq resources
    /\ outputs' = outputs \cup {[stack |-> Stmt.stack, name |-> Stmt.d.name,
                                 refs |-> Stmt.d.refs]}
    /\ dependencies' = dependencies \cup UNION {Uses(Stmt.stack, r) : r \in Stmt.d.refs}
    /\ Advance
    /\ UNCHANGED <<stacks, tables, gsis, functions, grants, alarms, api,
                   dataSources, resolvers, resources>>

\* <stack>.addDependency(<other>)
AddDependency ==
    /\ At("addDependency")
    /\ dependencies' = dependencies \cup {<<Stmt.stack, Stmt.d>>}
    /\ Advance
    /\ UNCHANGED <<stacks, tables, gsis, functions, grants, alarms, api,
                   dataSources, resolvers, resources, outputs>>

\* app.synth()
Synth ==
    /\ At("synth")
    /\ Advance
    /\ UNCHANGED <<stacks, dependencies, tables, gsis, functions, grants, alarms,
                   api, dataSources, resolvers, resources, outputs>>

Construct ==
    \/ NewStack
    \/ NewTable
    \/ AddGlobalSecondaryIndex
    \/ NewFunction
    \/ Grant
    \/ NewAlarm
    \/ NewGraphqlApi
    \/ AddLambdaDataSource
    \/ CreateResolver
    \/ NewResource
    \/ NewCfnOutput
    \/ AddDependency
    \/ Synth

---------------------------------------------------------------------------
(* The account the synthesized stacks are deployed to.                      *)

StackSet == {stacks[i] : i \in 1..Len(stacks)}
DependsOn(s) == {d[2] : d \in {e \in dependencies : e[1] = s}}
Dependents(s) == {d[1] : d \in {e \in dependencies : e[2] = s}}
TablesOf(s) == {t \in tables : t.stack = s}
TableNames(ts) == {t.tableName : t \in ts}

\* CloudFormation creates a stack at any moment, whatever the others are
CanDeploy_Unordered(s) ==
    /\ s \in StackSet \ deployed
    /\ TableNames(TablesOf(s)) \cap cloudTables = {}

\* CloudFormation creates a stack once the stacks it depends on exist (its
\* imports resolve), and only if no table of the name it is to create exists
CanDeploy(s) ==
    /\ s \in StackSet \ deployed
    /\ DependsOn(s) \subseteq deployed
    /\ TableNames(TablesOf(s)) \cap cloudTables = {}

\* cdk deploy <stack>
CdkDeploy(s) ==
    /\ Synthesized
    /\ CanDeploy(s)
    /\ deployed' = deployed \cup {s}
    /\ cloudTables' = cloudTables \cup TableNames(TablesOf(s))
    /\ tableItems' = [n \in TableNames(TablesOf(s)) |-> 0] @@ tableItems
    /\ everWritten' = [n \in TableNames(TablesOf(s)) |-> 0] @@ everWritten
    /\ UNCHANGED <<synthVars, scriptVars, lastRequest>>

\* what deleting a stack does to a table were its removal policy DESTROY
Removed_Destroy(t) == TRUE

\* what deleting a stack does to a table: removed unless its removal policy
\* keeps it
Removed(t) == t.removalPolicy # "RETAIN"

\* cdk destroy <stack>: refused while a deployed stack imports from it
CdkDestroy(s) ==
    /\ Synthesized
    /\ s \in deployed
    /\ Dependents(s) \cap deployed = {}
    /\ deployed' = deployed \ {s}
    /\ LET gone == TableNames({t \in TablesOf(s) : Removed(t)})
       IN  /\ cloudTables' = cloudTables \ gone
           /\ tableItems' = [n \in DOMAIN tableItems \ gone |-> tableItems[n]]
    /\ UNCHANGED <<everWritten, synthVars, scriptVars, lastRequest>>

\* a deployed function puts an item into a table it may write
PutItem(f, t) ==
    /\ Synthesized
    /\ f.stack \in deployed
    /\ t.tableName \in cloudTables
    /\ [table |-> Ref(t.stack, t.id), fn |-> f.id, access |-> "ReadWriteData"] \in grants
    /\ tableItems[t.tableName] < MaxItems
    /\ tableItems' = [tableItems EXCEPT ![t.tableName] = @ + 1]
    /\ everWritten' = [everWritten EXCEPT ![t.tableName] = @ + 1]
    /\ UNCHANGED <<deployed, cloudTables, synthVars, scriptVars, lastRequest>>

InitCdk ==
    /\ IdleShell
    /\ IdleTeardown
    /\ IdleValidate
    /\ IdleDeploy
    /\ IdleCdk
    /\ IdleConfig
    /\ IdleEnv

Next ==
    \/ Construct /\ UNCHANGED <<accountVars, scriptVars, lastRequest>>
    \/ \E s \in StackSet : CdkDeploy(s)
    \/ \E s \in StackSet : CdkDestroy(s)
    \/ \E f \in functions, t \in tables : PutItem(f, t)

Spec == InitCdk /\ [][Next]_vars

\* cdk deploy --all: every stack, each after the stacks it depends on
CdkDeployAll ==
    /\ Synthesized
    /\ deployed = {}
    /\ TableNames(tables) \cap cloudTables = {}
    /\ deployed' = StackSet
    /\ cloudTables' = cloudTables \cup TableNames(tables)
    /\ tableItems' = [n \in TableNames(tables) |-> 0] @@ tableItems
    /\ everWritten' = [n \in TableNames(tables) |-> 0] @@ everWritten
    /\ UNCHANGED <<synthVars, scriptVars, lastRequest>>

\* what a request may present: the API key, a token for the Lambda
\* authorizer, or nothing
Credentials == {"API_KEY", "LAMBDA", "NONE"}

\* the authorization modes under which AppSync serves a field: those its
\* directives name, and the API's default mode when it has none
AllowedModes(f) ==
    IF f.directives # {} THEN f.directives
    ELSE {api.defaultAuthorization}

ResolversOf(f) ==
    {i \in 1..Len(resolvers) :
        resolvers[i].typeName = f.typeName /\ resolvers[i].fieldName = f.fieldName}

TheDataSource(id) == CHOOSE ds \in dataSources : ds.id = id

\* the function a resolver invokes
FunctionOf(r) == TheDataSource(r.dataSource).function

\* the function AppSync invokes for a field, "" when the field has no resolver
Invoked(f) ==
    IF ResolversOf(f) = {} THEN ""
    ELSE FunctionOf(resolvers[CHOOSE i \in ResolversOf(f) : TRUE])

\* a GraphQL request for one field of Query or Mutation
Request(credential, f) ==
    /\ Synthesized
    /\ api.stack \in deployed
    /\ LET authorized == credential \in AllowedModes(f)
       IN  lastRequest' = [auth |-> credential,
                           typeName |-> f.typeName,
                           fieldName |-> f.fieldName,
                           authorized |-> authorized,
                           function |-> IF authorized THEN Invoked(f) ELSE ""]
    /\ UNCHANGED <<synthVars, accountVars, scriptVars>>

NextApi ==
    \/ Construct /\ UNCHANGED <<accountVars, scriptVars, lastRequest>>
    \/ CdkDeployAll
    \/ \E credential \in Credentials, i \in 1..Len(Schema) : Request(credential, Schema[i])

SpecApi == InitCdk /\ [][NextApi]_vars

---------------------------------------------------------------------------
(* Properties of the CDK app.                                               *)

RECURSIVE Ancestors(_, _)
Ancestors(S, n) ==
    IF n = 0 THEN S
    ELSE Ancestors(S \cup UNION {DependsOn(x) : x \in S}, n - 1)

Acyclic == \A s \in StackSet : s \notin Ancestors(DependsOn(s), Cardinality(StackSet))

\* C4: the stack dependencies are acyclic and hold Lambda -> Database and
\* AppSync -> Lambda, and no step deploys the Lambda stack unless the
\* Database stack is deployed, nor the AppSync stack unless the Lambda
\* stack is deployed.
C4_DependencyOrder ==
    /\ [](Acyclic)
    /\ [](Synthesized => /\ <<"Lambda", "Database">> \in dependencies
                         /\ <<"AppSyncApi", "Lambda">> \in dependencies)
    /\ [][/\ ("Lambda" \in deployed' \ deployed) => "Database" \in deployed
          /\ ("AppSyncApi" \in deployed' \ deployed) => "Lambda" \in deployed]_vars
    /\ []( /\ "Lambda" \in deployed => "Database" \in deployed
           /\ "AppSyncApi" \in deployed => "Lambda" \in deployed)

C4_Witness == {"Database", "Lambda", "AppSyncApi"} \subseteq deployed

\* C5: no dependency, declared or by cross-stack reference, has the Auth,
\* Frontend or EmbeddedWidget stack at either end.
C5_IndependentStacks ==
    LET IndependentStacks == {"Auth", "Frontend", "EmbeddedWidget"}
    IN  \A d \in dependencies :
            d[1] \notin IndependentStacks /\ d[2] \notin IndependentStacks

\* C6: once the app is synthesized, Query has 10 fields and Mutation 13,
\* every field has exactly one resolver, and every resolver names a field
\* of the schema.
C6_ResolverBijection ==
    Synthesized =>
        /\ Cardinality({i \in 1..Len(Schema) : Schema[i].typeName = "Query"}) = 10
        /\ Cardinality({i \in 1..Len(Schema) : Schema[i].typeName = "Mutation"}) = 13
        /\ \A i \in 1..Len(Schema) : Cardinality(ResolversOf(Schema[i])) = 1
        /\ \A j \in 1..Len(resolvers) :
              \E i \in 1..Len(Schema) : j \in ResolversOf(Schema[i])
        /\ \A j, k \in 1..Len(resolvers) : resolvers[j].id = resolvers[k].id => j = k

C6_Witness == Synthesized /\ Len(resolvers) = 23 /\ lastRequest.function # ""

\* C7: every resolver invokes the function of its operation's domain
\* (Catalog, Availability, Booking, ChatAgent), and a served request
\* reaches that function and no other.
C7_ResolverDomain ==
    LET CatalogOps == {"searchServices", "getService", "listProviders",
                       "listProvidersByService", "createService", "updateService",
                       "deleteService", "createProvider", "updateProvider",
                       "deleteProvider"}
        AvailabilityOps == {"getAvailableSlots", "setProviderAvailability"}
        BookingOps == {"getBooking", "listBookingsByProvider", "listBookingsByClient",
                       "getBookingByConversation", "createBooking", "confirmBooking",
                       "cancelBooking"}
        ChatOps == {"startConversation", "sendMessage",
                    "confirmBookingFromConversation", "getConversation"}
        Domain(fieldName) ==
            CASE fieldName \in CatalogOps -> "catalogFunction"
              [] fieldName \in AvailabilityOps -> "availabilityFunction"
              [] fieldName \in BookingOps -> "bookingFunction"
              [] fieldName \in ChatOps -> "chatAgentFunction"
              [] OTHER -> ""
    IN  /\ Synthesized =>
              \A j \in 1..Len(resolvers) :
                  FunctionOf(resolvers[j]) = Domain(resolvers[j].fieldName)
        /\ lastRequest.authorized =>
              lastRequest.function = Domain(lastRequest.fieldName)

C7_Witness ==
    /\ lastRequest.authorized
    /\ lastRequest.fieldName = "getConversation"
    /\ lastRequest.function = "chatAgentFunction"

\* C10: a request that presents only the API key is never served an
\* operation the schema marks as Admin.
C10_AdminNotByApiKey ==
    LET AdminOps == {"createService", "updateService", "deleteService",
                     "createProvider", "updateProvider", "deleteProvider",
                     "setProviderAvailability"}
    IN  (lastRequest.auth = "API_KEY" /\ lastRequest.authorized)
            => lastRequest.fieldName \notin AdminOps

---------------------------------------------------------------------------
(* Properties of the scripts, continued.                                    *)

\* the objects a complete packaging leaves in the code bucket
CodeObjects ==
    {[bucket |-> CodeBucket, key |-> <<"functions", FunctionDirs[i] \o ".zip">>] :
        i \in 1..Len(FunctionDirs)}
    \cup {[bucket |-> CodeBucket, key |-> <<"layers", "shared-layer.zip">>]}

\* C11: whenever the script is about to run deploy_stack, the code bucket
\* holds the zip of each of the five functions under functions/ and
\* shared-layer.zip under layers/.
C11_CodeBucketComplete ==
    pc = "deploy_stack" => CodeObjects \subseteq s3objects

\* the steps that run only after check_buckets has returned
AfterCheckBuckets ==
    {"package_lambdas", "pkg_loop", "upload_code", "upload_templates",
     "validate_template", "deploy_stack", "deploy_result", "get_outputs"}

C13_CountsEveryError ==
    LET files == {i \in 1..Len(nested) : nested[i] # "nofile"}
        k == Cardinality({i \in files : nested[i] = "invalid"})
             + (IF master = "invalid" THEN 1 ELSE 0)
    IN  pc = "done" =>
            /\ Len(validated) = Cardinality(files) + 1
            /\ k >= 1 => (Mentions(output, FoundMsg(k)) /\ exitStatus = 1)

\* C14: a confirmed teardown whose delete-stack or wait command failed has
\* printed 'ERROR: Stack deletion failed' and exited with status 1, and the
\* success message is printed only after a wait that succeeded.
C14_DeletionFailureReported ==
    /\ (pc = "done" /\ Mentions(awsCalls, TeardownSh.DeleteStack) /\ status # 0) =>
          /\ Mentions(output, TeardownSh.DeleteFailed)
          /\ exitStatus = 1
    /\ Mentions(output, TeardownSh.Deleted) =>
          /\ Mentions(awsCalls, TeardownSh.WaitDelete)
          /\ status = 0

\* C15: a run whose `aws cloudformation deploy` failed has printed 'ERROR:
\* Stack deployment failed' and exited with status 1, and the success
\* message and the outputs are printed only after a deploy that succeeded.
C15_DeployFailureReported ==
    LET succeeded == Mentions(awsCalls, DeployCmd.Deploy) /\ DeployCmd.Deploy \notin failed
    IN  /\ (pc = "done" /\ DeployCmd.Deploy \in failed) =>
              /\ Mentions(output, DeployMsg.DeployFailed)
              /\ exitStatus = 1
        /\ Mentions(output, DeployMsg.Deployed) => succeeded
        /\ Mentions(output, DeployMsg.Complete) => succeeded

\* C16: every zip that package_lambdas writes lies in the dist/functions or
\* dist/layers directory of the cloudformation directory, the directories
\* that mkdir created and that upload_code syncs.
C16_ZipsLandInDist ==
    \A f \in fsFiles \ RepoFiles :
        Parent(f) \in {Resolve(CloudformationDir, DistFunctions),
                       Resolve(CloudformationDir, DistLayers)}

---------------------------------------------------------------------------
(* deploy.sh, lines 13-21: the configuration computed from the arguments.   *)

MaxEnvLen == 3

ProjectName == <<"C", "h", "a", "t", "B", "o", "o", "k", "i", "n", "g">>
DefaultEnvironment == <<"d", "e", "v">>
TemplatesInfix ==
    <<"-", "c", "l", "o", "u", "d", "f", "o", "r", "m", "a", "t", "i", "o", "n",
      "-", "t", "e", "m", "p", "l", "a", "t", "e", "s", "-">>
CodeInfix ==
    <<"-", "l", "a", "m", "b", "d", "a", "-", "p", "a", "c", "k", "a", "g", "e", "s", "-">>

\* ${1:-dev}: the first argument, dev when it is unset or empty
Environment(argv) == IF argv = <<>> \/ argv[1] = <<>> THEN DefaultEnvironment ELSE argv[1]

\* the environment names tried: up to MaxEnvLen characters
EnvAlphabet == {"d", "1", "-", "P"}
EnvNames == SeqsUpTo(EnvAlphabet, MaxEnvLen)

InitConfig ==
    /\ ShellStart("configuration")
    /\ args \in {<<>>} \cup {<<e>> : e \in EnvNames}
    /\ bucketName = <<>>
    /\ IdleEnv
    /\ IdleTeardown
    /\ IdleValidate
    /\ IdleDeploy
    /\ IdleCdk

\* lines 14-21
Configure ==
    /\ pc = "configuration"
    /\ bucketName' =
          [b \in {TemplatesBucket, CodeBucket} |->
              ProjectName
              \o (IF b = TemplatesBucket THEN TemplatesInfix ELSE CodeInfix)
              \o Environment(args)]
    /\ pc' = "main"
    /\ UNCHANGED <<output, awsCalls, status, exitStatus, args, envVars, teardownVars,
                   validateVars, deployVars, cdkVars>>

SpecConfig == InitConfig /\ [][Configure]_vars

\* C17: the two bucket names computed from any environment name consist
\* only of lowercase letters, digits, hyphens and dots.
C17_BucketNameCharacters ==
    LET Allowed == {"a", "b", "c", "d", "e", "f", "g", "h", "i", "j", "k", "l", "m",
                    "n", "o", "p", "q", "r", "s", "t", "u", "v", "w", "x", "y", "z",
                    "0", "1", "2", "3", "4", "5", "6", "7", "8", "9", "-", "."}
    IN  pc = "main" =>
            \A b \in DOMAIN bucketName :
                \A i \in 1..Len(bucketName[b]) : bucketName[b][i] \in Allowed

---------------------------------------------------------------------------
(* Properties of the Lambda stack.                                          *)

C19_ChatAgentReadsEverything ==
    Synthesized =>
        \A t \in tables :
            \E g \in grants : g.fn = "chatAgentFunction" /\ g.table = Ref(t.stack, t.id)

\* C20: each of the five functions has an environment with the seven table
\* names and LOG_LEVEL; the override of Availability adds
\* SLOT_INTERVAL_MINUTES = 15 and drops none of them; the timeout and memory
\* overrides (AuthResolver 10 s and 256 MB, Booking 60 s, ChatAgent 60 s and
\* 1024 MB) replace 30 s and 512 MB for those functions only.
C20_FunctionConfiguration ==
    LET TableVars ==
            [TENANTS_TABLE |-> "ChatBooking-Tenants",
             API_KEYS_TABLE |-> "ChatBooking-ApiKeys",
             SERVICES_TABLE |-> "ChatBooking-Services",
             PROVIDERS_TABLE |-> "ChatBooking-Providers",
             AVAILABILITY_TABLE |-> "ChatBooking-ProviderAvailability",
             BOOKINGS_TABLE |-> "ChatBooking-Bookings",
             CONVERSATIONS_TABLE |-> "ChatBooking-Conversations"]
        Common == DOMAIN TableVars \cup {"LOG_LEVEL"}
        \* the table a variable of the environment names
        Named(v) == {t \in tables : Ref(t.stack, t.id) = LambdaStackProps[v.of]}
        Timeout(id) ==
            CASE id = "authResolverFunction" -> 10
              [] id \in {"bookingFunction", "chatAgentFunction"} -> 60
              [] OTHER -> 30
        MemorySize(id) ==
            CASE id = "authResolverFunction" -> 256
              [] id = "chatAgentFunction" -> 1024
              [] OTHER -> 512
    IN  /\ \A f \in functions :
              /\ Common \subseteq DOMAIN f.environment
              /\ \A k \in DOMAIN TableVars :
                    /\ f.environment[k].kind = "tableName"
                    /\ TableNames(Named(f.environment[k])) = {TableVars[k]}
              /\ f.environment["LOG_LEVEL"] = Literal("INFO")
              /\ IF f.id = "availabilityFunction"
                    THEN /\ DOMAIN f.environment = Common \cup {"SLOT_INTERVAL_MINUTES"}
                         /\ f.environment["SLOT_INTERVAL_MINUTES"] = Literal("15")
                    ELSE DOMAIN f.environment = Common
              /\ f.timeout = Timeout(f.id)
              /\ f.memorySize = MemorySize(f.id)
        /\ Synthesized =>
              {f.id : f \in functions} =
                  {"authResolverFunction", "catalogFunction", "availabilityFunction",
                   "bookingFunction", "chatAgentFunction"}

C20_Witness ==
    /\ Synthesized
    /\ Cardinality(functions) = 5
    /\ \E f \in functions : f.id = "availabilityFunction" /\ f.stack \in deployed

\* C21: createAlarms creates exactly three alarms (errors with threshold 10,
\* throttles with threshold 5, p99 duration) for each of AuthResolver,
\* Booking and ChatAgent and for no other function: nine alarms with pairwise
\* distinct names, each duration threshold being 80% of the function's own
\* timeout in milliseconds (8000, 48000 and 48000).
C21_Alarms ==
    LET Alarmed == {"authResolverFunction", "bookingFunction", "chatAgentFunction"}
        Of(fn) == {i \in 1..Len(alarms) : alarms[i].fn = fn}
        Expected(i) ==
            CASE alarms[i].metric = "Errors" -> 10
              [] alarms[i].metric = "Throttles" -> 5
              [] alarms[i].metric = "Duration" ->
                    IF alarms[i].fn = "authResolverFunction" THEN 8000 ELSE 48000
              [] OTHER -> -1
    IN  /\ \A i \in 1..Len(alarms) :
              /\ alarms[i].fn \in Alarmed
              /\ alarms[i].threshold = Expected(i)
              /\ alarms[i].metric = "Duration" =>
                    alarms[i].threshold * 10 = TheFunction(alarms[i].fn).timeout * 1000 * 8
              /\ \A j \in 1..Len(alarms) :
                    alarms[i].alarmName = alarms[j].alarmName => i = j
        /\ \A fn \in Alarmed : Cardinality(Of(fn)) <= 3
        /\ Synthesized =>
              /\ Len(alarms) = 9
              /\ \A fn \in Alarmed :
                    {alarms[i].metric : i \in Of(fn)} = {"Errors", "Throttles", "Duration"}

C21_Witness ==
    /\ Synthesized
    /\ Len(alarms) = 9
    /\ "Lambda" \in deployed
    /\ \E i \in 1..Len(alarms) : alarms[i].threshold = 8000

---------------------------------------------------------------------------
(* app.ts, lines 24-106: the environment of the app, the six stacks it     *)
(* instantiates, and the deployment of several environments.               *)

MaxRuns == 2

\* the value of an absent context key or environment variable
Undefined == "<undefined>"

\* a ?? b: only an absent value gives way
Or_Nullish(a, b) == IF a # Undefined THEN a ELSE b

\* a || b
Or(a, b) == IF a \notin {Undefined, ""} THEN a ELSE b

\* the context values (-c env=..., account, region) and the environment
\* variables the app is run with
AppInputs ==
    LET envs == {Undefined, "", "dev", "prod"}
        accounts == {Undefined, "123456789012"}
        regions == {Undefined, "", "eu-west-1"}
    IN  [context : [env : envs, account : accounts, region : regions],
         processEnv : [ENV : envs, CDK_DEFAULT_ACCOUNT : accounts,
                       CDK_DEFAULT_REGION : regions]]

\* the ids given to the stacks: `${stackPrefix}-Database` and so on
StackSuffixes ==
    LET news == SelectSeq(App, LAMBDA st : st.op = "stack")
    IN  [i \in 1..Len(news) |-> news[i].stack]

InitEnv ==
    /\ ShellStart("resolve")
    /\ \E i \in AppInputs : context = i.context /\ processEnv = i.processEnv
    /\ appConfig = <<>>
    /\ stackProps = <<>>
    /\ cloud = {}
    /\ runs = 1
    /\ IdleConfig
    /\ IdleTeardown
    /\ IdleValidate
    /\ IdleDeploy
    /\ IdleCdk

\* lines 27-39
ResolveEnv ==
    /\ pc = "resolve"
    /\ LET env == Or(context.env, Or(processEnv.ENV, "dev"))
       IN  appConfig' =
               [env |-> env,
                account |-> Or(context.account, processEnv.CDK_DEFAULT_ACCOUNT),
                region |-> Or(context.region, Or(processEnv.CDK_DEFAULT_REGION, "us-east-1")),
                tags |-> [Project |-> "ChatBooking", Environment |-> env, ManagedBy |-> "CDK"],
                stackPrefix |-> <<"ChatBooking", env>>]
    /\ pc' = "instantiate"
    /\ UNCHANGED <<output, awsCalls, status, exitStatus, args, bucketName,
                   context, processEnv, stackProps, cloud, runs,
                   teardownVars, validateVars, deployVars, cdkVars>>

\* lines 42-106: new XStack(app, `${stackPrefix}-X`, { env: { account, region }, tags })
InstantiateStack ==
    /\ pc = "instantiate"
    /\ stackProps' = Append(stackProps,
            [id |-> Append(appConfig.stackPrefix, StackSuffixes[Len(stackProps) + 1]),
             env |-> [account |-> appConfig.account, region |-> appConfig.region],
             tags |-> appConfig.tags])
    /\ pc' = IF Len(stackProps) + 1 = Len(StackSuffixes) THEN "deploy" ELSE "instantiate"
    /\ UNCHANGED <<output, awsCalls, status, exitStatus, args, bucketName,
                   context, processEnv, appConfig, cloud, runs,
                   teardownVars, validateVars, deployVars, cdkVars>>

\* the physical names the stacks give to their resources
PhysicalNames(account) ==
    {[kind |-> "table", name |-> <<TableDecls[i].tableName>>] : i \in 1..Len(TableDecls)}
    \cup {[kind |-> "function", name |-> <<FunctionDecls[i].functionName>>] :
            i \in 1..Len(FunctionDecls)}
    \cup {[kind |-> "alarm", name |-> <<"ChatBooking", AlarmFunctions[i].name, AlarmKinds[k]>>] :
            i \in 1..Len(AlarmFunctions), k \in 1..Len(AlarmKinds)}
    \cup {[kind |-> "userPool", name |-> <<"ChatBooking-AdminUsers">>],
          [kind |-> "domain", name |-> <<"chatbooking-admin", account>>]}

\* cdk deploy --all: a resource whose name another stack of the account
\* and region already holds cannot be created, and the deployment fails
DeployEnv ==
    /\ pc = "deploy"
    /\ LET mine == PhysicalNames(appConfig.account)
           \* the other environments deployed to the same account and region
           others == {d \in cloud : /\ d.account = appConfig.account
                                    /\ d.region = appConfig.region
                                    /\ d.env # appConfig.env}
           taken == UNION {d.names : d \in others}
       IN  IF mine \cap taken # {}
             THEN pc' = "deploy_failed" /\ UNCHANGED cloud
             ELSE /\ pc' = "deployed"
                  /\ cloud' = cloud \cup
                        {[env |-> appConfig.env, account |-> appConfig.account,
                          region |-> appConfig.region, names |-> mine]}
    /\ UNCHANGED <<output, awsCalls, status, exitStatus, args, bucketName,
                   context, processEnv, appConfig, stackProps, runs,
                   teardownVars, validateVars, deployVars, cdkVars>>

\* the app is run again, with any context and environment variables
RunAgain ==
    /\ pc \in {"deployed", "deploy_failed"}
    /\ runs < MaxRuns
    /\ runs' = runs + 1
    /\ \E i \in AppInputs : context' = i.context /\ processEnv' = i.processEnv
    /\ appConfig' = <<>>
    /\ stackProps' = <<>>
    /\ pc' = "resolve"
    /\ UNCHANGED <<output, awsCalls, status, exitStatus, args, bucketName, cloud,
                   teardownVars, validateVars, deployVars, cdkVars>>

NextEnv ==
    \/ ResolveEnv
    \/ InstantiateStack
    \/ DeployEnv
    \/ RunAgain

SpecEnv == InitEnv /\ [][NextEnv]_vars

\* C22: two environments deployed by the app into the same account and
\* region do not collide: the physical names declared for one environment
\* (tables, functions, alarms, user pool, domain prefix) are distinct from
\* those another environment holds, so the deployment does not fail.
C22_EnvironmentsDoNotCollide ==
    /\ pc = "deploy" =>
          \A d \in cloud :
              (d.account = appConfig.account /\ d.region = appConfig.region
                  /\ d.env # appConfig.env) =>
                      d.names \cap PhysicalNames(appConfig.account) = {}
    /\ pc # "deploy_failed"

\* C23: the environment and the region are the context value, else the
\* environment variable (ENV, CDK_DEFAULT_REGION), else the default (dev,
\* us-east-1), an empty value counting as absent; each of the six stacks is
\* named ChatBooking-<env>-<suffix> and receives the same account and region
\* and the same Project, Environment and ManagedBy tags.
C23_EnvironmentResolution ==
    LET Present(v) == v # Undefined /\ v # ""
        env == IF Present(context.env) THEN context.env
               ELSE IF Present(processEnv.ENV) THEN processEnv.ENV
               ELSE "dev"
        region == IF Present(context.region) THEN context.region
                  ELSE IF Present(processEnv.CDK_DEFAULT_REGION)
                         THEN processEnv.CDK_DEFAULT_REGION
                  ELSE "us-east-1"
        Suffixes == <<"Database", "Lambda", "AppSyncApi", "Auth", "Frontend",
                      "EmbeddedWidget">>
    IN  pc \in {"instantiate", "deploy", "deployed", "deploy_failed"} =>
            /\ appConfig.env = env
            /\ appConfig.region = region
            /\ Len(stackProps) <= 6
            /\ pc # "instantiate" => Len(stackProps) = 6
            /\ \A i \in 1..Len(stackProps) :
                  /\ stackProps[i].id = <<"ChatBooking", env, Suffixes[i]>>
                  /\ stackProps[i].env = stackProps[1].env
                  /\ stackProps[i].env.region = region
                  /\ stackProps[i].env.account = appConfig.account
                  /\ stackProps[i].tags =
                        [Project |-> "ChatBooking", Environment |-> env, ManagedBy |-> "CDK"]

C23_Witness ==
    /\ pc = "deployed"
    /\ Len(stackProps) = 6
    /\ context.env = ""
    /\ processEnv.ENV = "prod"
    /\ appConfig.env = "prod"
    /\ context.region = Undefined
    /\ processEnv.CDK_DEFAULT_REGION = ""
    /\ appConfig.region = "us-east-1"

=============================================================================
